---- MODULE Spec2Model ----
(***************************************************************************)
(* Model of mandykoh/convolver, src/kernel.go: a Kernel (radius,           *)
(* sideLength, per-channel weights), its weight setters, the windowed      *)
(* aggregation operators Avg, Max and Min with edge clipping and sRGB <->  *)
(* linear conversion through lookup tables, and the parallel apply that    *)
(* spreads the rows of an image over goroutines joined by a WaitGroup.     *)
(*                                                                         *)
(* Numbers.  Pixel channels are bytes 0..255.  The code's float64 linear   *)
(* values are modelled in fixed point: a linear value v is the integer     *)
(* round(v * Scale).  Kernel weights are float64 in the code; the model    *)
(* draws them from small sets of integers.  Products weight * value and    *)
(* their sums are then exact; a quotient is rounded to the nearest fixed   *)
(* point value.                                                            *)
(***************************************************************************)
EXTENDS Integers, Sequences, FiniteSets, TLC

----------------------------------------------------------------------------
(* Bounds of the model *)

MaxRadius == 2
MaxParallelism == 2
MaxBufs == 3

(* Fixed-point unit of a linear-light value: 1.0 is Scale. *)
Scale == 1000000

(* Size of the encode table less one: lookupLinearToSRGB8 scales by 511. *)
LinearSteps == 511

(* Largest channel value, and the initial running minimum of Min. *)
MaxByte == 255

Channels == 1..4   \* R, G, B, A

----------------------------------------------------------------------------
(* Colour-space conversion *)

(* sRGB8ToLinearLUT[i] = convertSRGB8ToLinear(i), filled by init(); entry *)
(* i is at index i+1, in units of 1/Scale.                                 *)
sRGB8ToLinearLUT ==
  << 0, 304, 607, 911, 1214, 1518, 1821, 2125,
     2428, 2732, 3035, 3347, 3677, 4025, 4391, 4777,
     5182, 5605, 6049, 6512, 6995, 7499, 8023, 8568,
     9134, 9721, 10330, 10960, 11612, 12286, 12983, 13702,
     14444, 15209, 15996, 16807, 17642, 18500, 19382, 20289,
     21219, 22174, 23153, 24158, 25187, 26241, 27321, 28426,
     29557, 30713, 31896, 33105, 34340, 35601, 36889, 38204,
     39546, 40915, 42311, 43735, 45186, 46665, 48172, 49707,
     51269, 52861, 54480, 56128, 57805, 59511, 61246, 63010,
     64803, 66626, 68478, 70360, 72272, 74214, 76185, 78187,
     80220, 82283, 84376, 86500, 88656, 90842, 93059, 95307,
     97587, 99899, 102242, 104616, 107023, 109462, 111932, 114435,
     116971, 119538, 122139, 124772, 127438, 130136, 132868, 135633,
     138432, 141263, 144128, 147027, 149960, 152926, 155926, 158961,
     162029, 165132, 168269, 171441, 174647, 177888, 181164, 184475,
     187821, 191202, 194618, 198069, 201556, 205079, 208637, 212231,
     215861, 219526, 223228, 226966, 230740, 234551, 238398, 242281,
     246201, 250158, 254152, 258183, 262251, 266356, 270498, 274677,
     278894, 283149, 287441, 291771, 296138, 300544, 304987, 309469,
     313989, 318547, 323143, 327778, 332452, 337164, 341914, 346704,
     351533, 356400, 361307, 366253, 371238, 376262, 381326, 386429,
     391572, 396755, 401978, 407240, 412543, 417885, 423268, 428690,
     434154, 439657, 445201, 450786, 456411, 462077, 467784, 473531,
     479320, 485150, 491021, 496933, 502886, 508881, 514918, 520996,
     527115, 533276, 539479, 545724, 552011, 558340, 564712, 571125,
     577580, 584078, 590619, 597202, 603827, 610496, 617207, 623960,
     630757, 637597, 644480, 651406, 658375, 665387, 672443, 679542,
     686685, 693872, 701102, 708376, 715694, 723055, 730461, 737910,
     745404, 752942, 760525, 768151, 775822, 783538, 791298, 799103,
     806952, 814847, 822786, 830770, 838799, 846873, 854993, 863157,
     871367, 879622, 887923, 896269, 904661, 913099, 921582, 930111,
     938686, 947307, 955973, 964686, 973445, 982251, 991102, 1000000 >>

(* linearToSRGB8LUT[i] = convertLinearToSRGB8(i / 511), filled by init();   *)
(* entry i is at index i+1.                                                *)
linearToSRGB8LUT ==
  << 0, 6, 13, 18, 22, 25, 28, 31, 34, 36, 38, 40, 42, 44, 46, 48,
     50, 51, 53, 54, 56, 57, 59, 60, 61, 62, 64, 65, 66, 67, 69, 70,
     71, 72, 73, 74, 75, 76, 77, 78, 79, 80, 81, 82, 83, 84, 85, 86,
     86, 87, 88, 89, 90, 91, 91, 92, 93, 94, 95, 95, 96, 97, 98, 98,
     99, 100, 101, 101, 102, 103, 103, 104, 105, 106, 106, 107, 108, 108, 109, 110,
     110, 111, 111, 112, 113, 113, 114, 115, 115, 116, 116, 117, 118, 118, 119, 119,
     120, 121, 121, 122, 122, 123, 123, 124, 125, 125, 126, 126, 127, 127, 128, 128,
     129, 129, 130, 130, 131, 132, 132, 133, 133, 134, 134, 135, 135, 136, 136, 137,
     137, 138, 138, 139, 139, 140, 140, 140, 141, 141, 142, 142, 143, 143, 144, 144,
     145, 145, 146, 146, 147, 147, 147, 148, 148, 149, 149, 150, 150, 151, 151, 151,
     152, 152, 153, 153, 154, 154, 154, 155, 155, 156, 156, 156, 157, 157, 158, 158,
     159, 159, 159, 160, 160, 161, 161, 161, 162, 162, 163, 163, 163, 164, 164, 165,
     165, 165, 166, 166, 166, 167, 167, 168, 168, 168, 169, 169, 169, 170, 170, 171,
     171, 171, 172, 172, 172, 173, 173, 174, 174, 174, 175, 175, 175, 176, 176, 176,
     177, 177, 177, 178, 178, 179, 179, 179, 180, 180, 180, 181, 181, 181, 182, 182,
     182, 183, 183, 183, 184, 184, 184, 185, 185, 185, 186, 186, 186, 187, 187, 187,
     188, 188, 188, 189, 189, 189, 190, 190, 190, 191, 191, 191, 192, 192, 192, 193,
     193, 193, 193, 194, 194, 194, 195, 195, 195, 196, 196, 196, 197, 197, 197, 198,
     198, 198, 198, 199, 199, 199, 200, 200, 200, 201, 201, 201, 201, 202, 202, 202,
     203, 203, 203, 204, 204, 204, 204, 205, 205, 205, 206, 206, 206, 206, 207, 207,
     207, 208, 208, 208, 208, 209, 209, 209, 210, 210, 210, 210, 211, 211, 211, 212,
     212, 212, 212, 213, 213, 213, 214, 214, 214, 214, 215, 215, 215, 215, 216, 216,
     216, 217, 217, 217, 217, 218, 218, 218, 218, 219, 219, 219, 220, 220, 220, 220,
     221, 221, 221, 221, 222, 222, 222, 222, 223, 223, 223, 224, 224, 224, 224, 225,
     225, 225, 225, 226, 226, 226, 226, 227, 227, 227, 227, 228, 228, 228, 228, 229,
     229, 229, 229, 230, 230, 230, 230, 231, 231, 231, 231, 232, 232, 232, 232, 233,
     233, 233, 233, 234, 234, 234, 234, 235, 235, 235, 235, 236, 236, 236, 236, 237,
     237, 237, 237, 238, 238, 238, 238, 239, 239, 239, 239, 239, 240, 240, 240, 240,
     241, 241, 241, 241, 242, 242, 242, 242, 243, 243, 243, 243, 243, 244, 244, 244,
     244, 245, 245, 245, 245, 246, 246, 246, 246, 246, 247, 247, 247, 247, 248, 248,
     248, 248, 249, 249, 249, 249, 249, 250, 250, 250, 250, 251, 251, 251, 251, 251,
     252, 252, 252, 252, 253, 253, 253, 253, 253, 254, 254, 254, 254, 255, 255, 255 >>

(* math.Round(a / b) for b > 0: to nearest, halves away from zero.  Also   *)
(* the model of a float64 quotient of fixed-point values.                  *)
RoundDiv(a, b) ==
  IF a >= 0 THEN (2 * a + b) \div (2 * b)
            ELSE -((2 * (-a) + b) \div (2 * b))

fmin(a, b) == IF a < b THEN a ELSE b

fmax(a, b) == IF a > b THEN a ELSE b

lookupSRGB8ToLinear(v) == sRGB8ToLinearLUT[v + 1]

lookupLinearToSRGB8_wrapping(v) ==
  LET clipped == IF v > Scale THEN v % Scale ELSE fmax(v, 0)
  IN  linearToSRGB8LUT[RoundDiv(clipped * LinearSteps, Scale) + 1]

lookupLinearToSRGB8(v) ==
  LET clipped == fmin(fmax(v, 0), Scale)
  IN  linearToSRGB8LUT[RoundDiv(clipped * LinearSteps, Scale) + 1]

(* convertSRGB8ToLinear(v), the closed form v/255/12.92 or                  *)
(* ((v/255 + 0.055)/1.055)^2.4, in units of 1/Scale: the values init()     *)
(* copies into sRGB8ToLinearLUT.                                           *)
convertSRGB8ToLinear(v) == sRGB8ToLinearLUT[v + 1]

(* convertLinearToSRGB8 is a rising step function of v.  Entry b + 1 is    *)
(* the least v, in units of 1/Scale, for which the closed form             *)
(* round(clamp(12.92 v or 1.055 v^(1/2.4) - 0.055) * 255) is b or more.    *)
convertLinearToSRGB8Steps ==
  <<
     0, 152, 456, 759, 1063, 1366, 1670, 1973,
     2277, 2580, 2884, 3189, 3510, 3849, 4206, 4582,
     4977, 5392, 5825, 6278, 6752, 7245, 7759, 8294,
     8849, 9425, 10023, 10643, 11284, 11947, 12632, 13340,
     14071, 14824, 15600, 16399, 17222, 18069, 18939, 19833,
     20751, 21694, 22661, 23653, 24670, 25711, 26778, 27871,
     28989, 30132, 31302, 32498, 33719, 34968, 36243, 37544,
     38872, 40228, 41610, 43020, 44458, 45923, 47415, 48936,
     50485, 52062, 53667, 55301, 56964, 58655, 60376, 62125,
     63903, 65711, 67549, 69416, 71313, 73239, 75196, 77183,
     79200, 81248, 83326, 85435, 87575, 89745, 91947, 94180,
     96444, 98740, 101067, 103426, 105816, 108239, 110694, 113180,
     115699, 118251, 120835, 123452, 126101, 128783, 131499, 134247,
     137029, 139844, 142692, 145574, 148490, 151439, 154423, 157440,
     160491, 163577, 166697, 169851, 173040, 176264, 179522, 182816,
     186144, 189507, 192906, 196340, 199809, 203314, 206854, 210430,
     214042, 217689, 221373, 225093, 228849, 232641, 236470, 240335,
     244237, 248176, 252151, 256163, 260213, 264299, 268423, 272583,
     276782, 281017, 285291, 289602, 293950, 298337, 302761, 307224,
     311725, 316263, 320841, 325456, 330110, 334803, 339535, 344305,
     349114, 353962, 358849, 363775, 368741, 373745, 378790, 383873,
     388996, 394159, 399362, 404605, 409887, 415209, 420572, 425975,
     431418, 436901, 442425, 447989, 453594, 459239, 464926, 470653,
     476421, 482230, 488081, 493972, 499905, 505879, 511895, 517952,
     524051, 530191, 536373, 542597, 548863, 555171, 561521, 567913,
     574348, 580825, 587344, 593905, 600510, 607157, 613846, 620579,
     627354, 634172, 641033, 647938, 654885, 661876, 668910, 675988,
     683109, 690274, 697482, 704734, 712030, 719369, 726753, 734181,
     741652, 749168, 756728, 764333, 771982, 779675, 787413, 795195,
     803022, 810894, 818811, 826773, 834779, 842831, 850928, 859070,
     867257, 875490, 883768, 892091, 900460, 908875, 917335, 925841,
     934393, 942991, 951635, 960325, 969060, 977843, 986671, 995546 >>

convertLinearToSRGB8(v) ==
  LET clipped == fmin(fmax(v, 0), Scale)
  IN  CHOOSE b \in 0..MaxByte :
        /\ convertLinearToSRGB8Steps[b + 1] <= clipped
        /\ (b = MaxByte \/ convertLinearToSRGB8Steps[b + 2] > clipped)

(* kernelWeight.toNRGBA: a 4-tuple of linear values to a 4-tuple of bytes *)
toNRGBA(kw) == [c \in Channels |-> lookupLinearToSRGB8(kw[c])]

----------------------------------------------------------------------------
(* Images: image.NRGBA and image.Gray of the standard library *)

ZeroColor == <<0, 0, 0, 0>>

Rectangle(x0, y0, x1, y1) == [MinX |-> x0, MinY |-> y0, MaxX |-> x1, MaxY |-> y1]

(* image.Point.In(r) *)
PointIn(x, y, r) == r.MinX <= x /\ x < r.MaxX /\ r.MinY <= y /\ y < r.MaxY

Points(r) == (r.MinX .. r.MaxX - 1) \X (r.MinY .. r.MaxY - 1)

(* image.NewNRGBA(r): all channels of all pixels are zero *)
NewNRGBA(r) == [kind |-> "NRGBA", Rect |-> r, Pix |-> [p \in Points(r) |-> ZeroColor]]

(* image.NRGBA.NRGBAAt: the zero colour outside the rectangle *)
NRGBAAt(img, x, y) ==
  IF PointIn(x, y, img.Rect) THEN img.Pix[<<x, y>>] ELSE ZeroColor

(* image.NRGBA.SetNRGBA: no effect outside the rectangle *)
SetNRGBA(img, x, y, c) ==
  IF PointIn(x, y, img.Rect)
  THEN [img EXCEPT !.Pix = [@ EXCEPT ![<<x, y>>] = c]]
  ELSE img

----------------------------------------------------------------------------
(* Kernel *)

ZeroWeight == <<0, 0, 0, 0>>

KernelWithRadius(radius) ==
  LET sideLength == radius * 2 + 1
  IN  [radius |-> radius,
       sideLength |-> sideLength,
       weights |-> [n \in 1..(sideLength * sideLength) |-> ZeroWeight]]

(* k.weights[i] of the code is k.weights[i + 1] here *)
WeightAt(k, i) == k.weights[i + 1]

clipToBounds_unguarded(k, bounds, x, y) ==
  [Left   |-> k.radius - (x - bounds.MinX),
   Right  |-> k.radius - (bounds.MaxX - x - 1),
   Top    |-> k.radius - (y - bounds.MinY),
   Bottom |-> k.radius - (bounds.MaxY - y - 1)]

clipToBounds_offByOne(k, bounds, x, y) ==
  [Left   |-> IF x - bounds.MinX < k.radius
              THEN k.radius - (x - bounds.MinX) ELSE 0,
   Right  |-> IF bounds.MaxX - x < k.radius
              THEN k.radius - (bounds.MaxX - x) ELSE 0,
   Top    |-> IF y - bounds.MinY < k.radius
              THEN k.radius - (y - bounds.MinY) ELSE 0,
   Bottom |-> IF bounds.MaxY - y < k.radius
              THEN k.radius - (bounds.MaxY - y) ELSE 0]

clipToBounds_clampedDist(k, bounds, x, y) ==
  [Left   |-> IF x - bounds.MinX < k.radius
              THEN k.radius - fmax(x - bounds.MinX, 0) ELSE 0,
   Right  |-> IF bounds.MaxX - x - 1 < k.radius
              THEN k.radius - fmax(bounds.MaxX - x - 1, 0) ELSE 0,
   Top    |-> IF y - bounds.MinY < k.radius
              THEN k.radius - fmax(y - bounds.MinY, 0) ELSE 0,
   Bottom |-> IF bounds.MaxY - y - 1 < k.radius
              THEN k.radius - fmax(bounds.MaxY - y - 1, 0) ELSE 0]

clipToBounds(k, bounds, x, y) ==
  [Left   |-> IF x - bounds.MinX < k.radius
              THEN k.radius - (x - bounds.MinX) ELSE 0,
   Right  |-> IF bounds.MaxX - x - 1 < k.radius
              THEN k.radius - (bounds.MaxX - x - 1) ELSE 0,
   Top    |-> IF y - bounds.MinY < k.radius
              THEN k.radius - (y - bounds.MinY) ELSE 0,
   Bottom |-> IF bounds.MaxY - y - 1 < k.radius
              THEN k.radius - (bounds.MaxY - y - 1) ELSE 0]

WindowCells_unclipped(k, clip) ==
  [n \in 1..(k.sideLength * k.sideLength) |->
     <<(n - 1) \div k.sideLength, (n - 1) % k.sideLength>>]

(* The kernel cells <<s, t>> visited by the nested loops                   *)
(*   for s := clip.Top; s < k.sideLength-clip.Bottom; s++                  *)
(*     for t := clip.Left; t < k.sideLength-clip.Right; t++                *)
(* of Avg, Max and Min, in the order the loops visit them.                 *)
WindowCells(k, clip) ==
  LET h == k.sideLength - clip.Bottom - clip.Top
      w == k.sideLength - clip.Right - clip.Left
  IN  IF h <= 0 \/ w <= 0 THEN << >>
      ELSE [n \in 1..(h * w) |->
              <<clip.Top + ((n - 1) \div w), clip.Left + ((n - 1) % w)>>]

(* The reads img.NRGBAAt(x+t-k.radius, y+s-k.radius) of the loops of Avg,  *)
(* Max and Min called on (x, y), in order: each the coordinates read and   *)
(* the kernel cell <<s, t>> whose weight k.weights[s*k.sideLength+t] the   *)
(* pixel is paired with                                                    *)
WindowReads(k, bounds, x, y) ==
  LET cells == WindowCells(k, clipToBounds(k, bounds, x, y))
  IN  [n \in 1..Len(cells) |->
         <<x + cells[n][2] - k.radius, y + cells[n][1] - k.radius,
           cells[n][1], cells[n][2]>>]

(* One iteration of Avg's loop body on the accumulators *)
avgStep(acc, weight, c) ==
  [totalWeight |-> [ch \in Channels |-> acc.totalWeight[ch] + weight[ch]],
   sum |-> [ch \in Channels |->
              acc.sum[ch] + lookupSRGB8ToLinear(c[ch]) * weight[ch]]]

RECURSIVE AvgLoop(_, _, _, _, _, _)
AvgLoop(k, img, x, y, cells, n) ==
  IF n = 0 THEN [totalWeight |-> ZeroWeight, sum |-> ZeroWeight]
  ELSE LET s == cells[n][1]
           t == cells[n][2]
       IN  avgStep(AvgLoop(k, img, x, y, cells, n - 1),
                   WeightAt(k, s * k.sideLength + t),
                   NRGBAAt(img, x + t - k.radius, y + s - k.radius))

avgDivide_nonzero(sum, totalWeight) ==
  [ch \in Channels |->
     IF totalWeight[ch] > 0 THEN RoundDiv(sum[ch], totalWeight[ch])
     ELSE IF totalWeight[ch] < 0 THEN -RoundDiv(sum[ch], -totalWeight[ch])
     ELSE sum[ch]]

avgDivide_sharedTotal(sum, totalWeight) ==
  [ch \in Channels |->
     IF totalWeight[1] > 0 THEN RoundDiv(sum[ch], totalWeight[1])
                          ELSE sum[ch]]

(* if totalWeight.X > 0 { sum.X /= totalWeight.X }, for each channel *)
avgDivide(sum, totalWeight) ==
  [ch \in Channels |->
     IF totalWeight[ch] > 0 THEN RoundDiv(sum[ch], totalWeight[ch])
                            ELSE sum[ch]]

Avg(k, img, x, y) ==
  LET clip == clipToBounds(k, img.Rect, x, y)
      cells == WindowCells(k, clip)
      acc == AvgLoop(k, img, x, y, cells, Len(cells))
  IN  toNRGBA(avgDivide(acc.sum, acc.totalWeight))

maxChannel_candidateOnly(m, w, v) == IF v * w > m THEN v ELSE m

maxChannel_absWeight(m, w, v) ==
  IF v * (IF w < 0 THEN -w ELSE w) > m * (IF w < 0 THEN -w ELSE w) THEN v ELSE m

(* if v*weight.X > max.X*weight.X { max.X = v }, for one channel *)
maxChannel(m, w, v) == IF v * w > m * w THEN v ELSE m

maxStep_unweighted(max, weight, c) ==
  <<fmax(lookupSRGB8ToLinear(c[1]), max[1]),
    fmax(lookupSRGB8ToLinear(c[2]), max[2]),
    fmax(lookupSRGB8ToLinear(c[3]), max[3]),
    fmax(lookupSRGB8ToLinear(c[4]), max[4])>>

(* One iteration of Max's loop body on the running maximum: R, G, B, A *)
maxStep(max, weight, c) ==
  <<maxChannel(max[1], weight[1], lookupSRGB8ToLinear(c[1])),
    maxChannel(max[2], weight[2], lookupSRGB8ToLinear(c[2])),
    maxChannel(max[3], weight[3], lookupSRGB8ToLinear(c[3])),
    maxChannel(max[4], weight[4], lookupSRGB8ToLinear(c[4]))>>

RECURSIVE MaxLoop(_, _, _, _, _, _)
MaxLoop(k, img, x, y, cells, n) ==
  IF n = 0 THEN ZeroWeight
  ELSE LET s == cells[n][1]
           t == cells[n][2]
       IN  maxStep(MaxLoop(k, img, x, y, cells, n - 1),
                   WeightAt(k, s * k.sideLength + t),
                   NRGBAAt(img, x + t - k.radius, y + s - k.radius))

Max(k, img, x, y) ==
  LET clip == clipToBounds(k, img.Rect, x, y)
      cells == WindowCells(k, clip)
  IN  toNRGBA(MaxLoop(k, img, x, y, cells, Len(cells)))

(* min := kernelWeight{255, 255, 255, 255}: 255.0 as a linear value *)
MinInit == [ch \in Channels |-> MaxByte * Scale]

minChannel_unweighted(m, w, v) == IF v < m THEN v ELSE m

minChannel_orEqual(m, w, v) == IF v * w <= m * w THEN v ELSE m

(* if v*weight.X < min.X*weight.X { min.X = v }, for one channel *)
minChannel(m, w, v) == IF v * w < m * w THEN v ELSE m

(* One iteration of Min's loop body on the running minimum: R, G, B, A *)
minStep(min, weight, c) ==
  <<minChannel(min[1], weight[1], lookupSRGB8ToLinear(c[1])),
    minChannel(min[2], weight[2], lookupSRGB8ToLinear(c[2])),
    minChannel(min[3], weight[3], lookupSRGB8ToLinear(c[3])),
    minChannel(min[4], weight[4], lookupSRGB8ToLinear(c[4]))>>

RECURSIVE MinLoop(_, _, _, _, _, _)
MinLoop(k, img, x, y, cells, n) ==
  IF n = 0 THEN MinInit
  ELSE LET s == cells[n][1]
           t == cells[n][2]
       IN  minStep(MinLoop(k, img, x, y, cells, n - 1),
                   WeightAt(k, s * k.sideLength + t),
                   NRGBAAt(img, x + t - k.radius, y + s - k.radius))

Min(k, img, x, y) ==
  LET clip == clipToBounds(k, img.Rect, x, y)
      cells == WindowCells(k, clip)
  IN  toNRGBA(MinLoop(k, img, x, y, cells, Len(cells)))

(* The opFunc values k.Avg, k.Max, k.Min passed to apply *)
Ops == {"Avg", "Max", "Min"}

Op(name, k, img, x, y) ==
  CASE name = "Avg" -> Avg(k, img, x, y)
    [] name = "Max" -> Max(k, img, x, y)
    [] name = "Min" -> Min(k, img, x, y)

SetWeightRGBA_wholeRow(k, x, y, r, g, b, a) ==
  LET i == y * k.sideLength + x
  IN  IF 0 <= i /\ i < Len(k.weights)
      THEN [k EXCEPT !.weights =
              [n \in 1..Len(k.weights) |->
                 IF (n - 1) \div k.sideLength = i \div k.sideLength
                 THEN <<r, g, b, a>> ELSE k.weights[n]]]
      ELSE k

SetWeightRGBA_rangeChecked(k, x, y, r, g, b, a) ==
  IF 0 <= x /\ x < k.sideLength /\ 0 <= y /\ y < k.sideLength
  THEN [k EXCEPT !.weights[y * k.sideLength + x + 1] = <<r, g, b, a>>]
  ELSE k

SetWeightRGBA_transposed(k, x, y, r, g, b, a) ==
  LET i == x * k.sideLength + y
  IN  IF 0 <= i /\ i < Len(k.weights)
      THEN [k EXCEPT !.weights[i + 1] = <<r, g, b, a>>]
      ELSE k

(* SetWeightRGBA: k.weights[y*k.sideLength+x] = kernelWeight{r, g, b, a}.  *)
(* An index outside the slice panics and changes nothing.                  *)
SetWeightRGBA(k, x, y, r, g, b, a) ==
  LET i == y * k.sideLength + x
  IN  IF 0 <= i /\ i < Len(k.weights)
      THEN [k EXCEPT !.weights[i + 1] = <<r, g, b, a>>]
      ELSE k

SetWeightUniform(k, x, y, weight) ==
  SetWeightRGBA(k, x, y, weight, weight, weight, weight)

SetWeightsRGBA_truncating(k, weights) ==
  [k EXCEPT !.weights =
     [i \in 1..Len(k.weights) |-> IF i <= Len(weights) THEN weights[i] ELSE @[i]]]

SetWeightsUniform_replacing(k, weights) ==
  [k EXCEPT !.weights =
     [i \in 1..Len(weights) |->
        <<weights[i], weights[i], weights[i], weights[i]>>]]

(* SetWeightsRGBA: panics, leaving k as it is, unless len(weights) is      *)
(* sideLength * sideLength                                                 *)
SetWeightsRGBA(k, weights) ==
  IF k.sideLength * k.sideLength # Len(weights) THEN k
  ELSE [k EXCEPT !.weights = [i \in 1..Len(weights) |-> weights[i]]]

SetWeightsUniform(k, weights) ==
  IF k.sideLength * k.sideLength # Len(weights) THEN k
  ELSE [k EXCEPT !.weights =
          [i \in 1..Len(weights) |->
             <<weights[i], weights[i], weights[i], weights[i]>>]]

(* k.SideLength() *)
SideLength(k) == k.sideLength

NoPanic == [kind |-> "none"]

(* The panic of SetWeightsRGBA and SetWeightsUniform given n weights: its  *)
(* message holds k.radius, the expected count and the count provided       *)
weightsPanic(k, n) ==
  IF k.sideLength * k.sideLength # n
  THEN [kind |-> "panic", radius |-> k.radius,
        expected |-> k.sideLength * k.sideLength, provided |-> n]
  ELSE NoPanic

(* The run-time panic of k.weights[y*k.sideLength+x] in SetWeightRGBA when *)
(* the index is outside the slice                                          *)
indexPanic(k, x, y) ==
  LET i == y * k.sideLength + x
  IN  IF 0 <= i /\ i < Len(k.weights) THEN NoPanic
      ELSE [kind |-> "panic", index |-> i, length |-> Len(k.weights)]

(* convertImageToNRGBA, for an image that is not an *image.NRGBA: a new    *)
(* NRGBA of the same bounds, filled by draw.Draw(.., draw.Src).  The other *)
(* image type of the model is image.Gray, whose pixel <<Y>> converts to    *)
(* the opaque colour <<Y, Y, Y, 255>>.                                     *)
drawToNRGBA(img) ==
  [kind |-> "NRGBA",
   Rect |-> img.Rect,
   Pix |-> [p \in Points(img.Rect) |->
              <<img.Pix[p][1], img.Pix[p][1], img.Pix[p][1], MaxByte>>]]

(* The points of r in the order of apply's loops with one worker *)
PointsSeq(r) ==
  LET w == r.MaxX - r.MinX
      h == r.MaxY - r.MinY
  IN  IF w <= 0 \/ h <= 0 THEN << >>
      ELSE [n \in 1..(w * h) |-> <<r.MinX + ((n - 1) % w), r.MinY + ((n - 1) \div w)>>]

RECURSIVE SoloLoop(_, _, _, _, _)
SoloLoop(name, k, img, pts, n) ==
  IF n = 0 THEN NewNRGBA(img.Rect)
  ELSE SetNRGBA(SoloLoop(name, k, img, pts, n - 1), pts[n][1], pts[n][2],
                Op(name, k, img, pts[n][1], pts[n][2]))

(* apply(img, op, 1) run alone: one goroutine fills the result row by row  *)
(* and the caller waits for it                                             *)
SoloApply(name, k, img) ==
  SoloLoop(name, k, img, PointsSeq(img.Rect), Len(PointsSeq(img.Rect)))

----------------------------------------------------------------------------
(* Inputs of the model *)

(* Largest width and height of an input image *)
MaxDim == 3

(* Largest number of calls made on a kernel in a row *)
MaxCalls == 2

(* Largest number of dilation passes, and of erosion passes, in a row *)
MaxPasses == 2

(* Kernel weights the setters are called with *)
WeightVals == {-1, 0, 1, 2}

Palette ==
  << <<0, 10, 128, 255>>, <<10, 128, 255, 0>>,
     <<128, 255, 0, 10>>, <<255, 0, 10, 128>> >>

Origins == {<<0, 0>>, <<1, -1>>}

(* Colour patterns of the input images: the steps p, q of TestImage *)
Patterns == {<<0, 0>>, <<1, 0>>, <<0, 1>>, <<1, 1>>}

(* An NRGBA image over r whose pixel (x, y) has colour number p*x + q*y *)
TestImage(r, p, q) ==
  [kind |-> "NRGBA",
   Rect |-> r,
   Pix |-> [pt \in Points(r) |->
              Palette[1 + ((p * pt[1] + q * pt[2]) % Len(Palette))]]]

(* A Gray image over r *)
GrayImage(r, p, q) ==
  [kind |-> "Gray",
   Rect |-> r,
   Pix |-> [pt \in Points(r) |->
              <<Palette[1 + ((p * pt[1] + q * pt[2]) % Len(Palette))][2]>>]]

Pick(tuple, n) == tuple[1 + (n % Len(tuple))]

(* Weight arrays for SetWeightsRGBA on a kernel of the given side length:  *)
(* R alternates a, b; G repeats b, a, a; B is b times 0, 1, 2, 3 along the *)
(* diagonals; A is 4 * a in the centre cell and -b elsewhere (edge         *)
(* detection for 2, 1).                                                    *)
RGBAArrays(side) ==
  {[i \in 1..(side * side) |->
      LET s == (i - 1) \div side
          t == (i - 1) % side
      IN  <<Pick(<<a, b>>, i - 1),
            Pick(<<b, a, a>>, i - 1),
            ((s + t) % 4) * b,
            IF 2 * s + 1 = side /\ 2 * t + 1 = side THEN 4 * a ELSE -b>>]
   : a, b \in WeightVals}

----------------------------------------------------------------------------
(* State *)

VARIABLES
  kernel,  \* the Kernel: [radius, sideLength, weights]
  heap,    \* the image buffers: buffer id -> image, or NoImage when free
  call,    \* per caller: the frame of its apply call
  out      \* the direct call of Avg, Max or Min that has just returned, and its result

vars == <<kernel, heap, call, out>>

BufIds == 1..MaxBufs

NoImage == [kind |-> "none"]

Callers == {"a", "b"}

IdleCall == [pc |-> "idle"]

NoOut == [op |-> "none"]

FreeIds == {b \in BufIds : heap[b] = NoImage}

AllocatedIds == BufIds \ FreeIds

SetMin(S) == CHOOSE m \in S : \A n \in S : m <= n

----------------------------------------------------------------------------
(* Specification SpecOps: a kernel is constructed, its weights are set as  *)
(* a whole, and Avg, Max and Min are called directly on pixels of an image *)

OpsRects ==
  {Rectangle(o[1], o[2], o[1] + w, o[2] + h) :
     o \in Origins, w \in 1..MaxDim, h \in 1..MaxDim}

OpsImages == {TestImage(r, pq[1], pq[2]) : r \in OpsRects, pq \in Patterns}

InitOps ==
  /\ \E radius \in 0..MaxRadius : kernel = KernelWithRadius(radius)
  /\ \E img \in OpsImages :
       heap = [b \in BufIds |-> IF b = 1 THEN img ELSE NoImage]
  /\ call = [c \in Callers |-> IdleCall]
  /\ out = NoOut

DoSetWeightsRGBA ==
  /\ out = NoOut
  /\ \E ws \in RGBAArrays(kernel.sideLength) :
       kernel' = SetWeightsRGBA(kernel, ws)
  /\ UNCHANGED <<heap, call, out>>

(* A direct call k.Avg(img, x, y), k.Max(img, x, y) or k.Min(img, x, y)    *)
(* by the caller, which then holds the colour returned; reads keeps the    *)
(* pixels the call has read                                                *)
DoOp ==
  /\ out = NoOut
  /\ \E name \in Ops, pt \in Points(heap[1].Rect) :
       out' = [op |-> name, x |-> pt[1], y |-> pt[2],
               val |-> Op(name, kernel, heap[1], pt[1], pt[2]),
               reads |-> WindowReads(kernel, heap[1].Rect, pt[1], pt[2])]
  /\ UNCHANGED <<kernel, heap, call>>

(* The caller is done with the colour returned and goes on *)
Consume ==
  /\ out # NoOut
  /\ out' = NoOut
  /\ UNCHANGED <<kernel, heap, call>>

NextOps == DoSetWeightsRGBA \/ DoOp \/ Consume

SpecOps == InitOps /\ [][NextOps]_vars

----------------------------------------------------------------------------
(* Specification SpecClip: clipToBounds is called directly, as the         *)
(* package's test does, with bounds of any origin and a centre inside the  *)
(* bounds or one pixel outside them.                                       *)

InitClip ==
  /\ \E radius \in 0..MaxRadius : kernel = KernelWithRadius(radius)
  /\ \E r \in OpsRects :
       heap = [b \in BufIds |-> IF b = 1 THEN NewNRGBA(r) ELSE NoImage]
  /\ call = [c \in Callers |-> IdleCall]
  /\ out = NoOut

(* clip := k.clipToBounds(bounds, x, y) *)
DoClip ==
  /\ out = NoOut
  /\ LET bounds == heap[1].Rect
     IN  \E x \in (bounds.MinX - 1)..bounds.MaxX, y \in (bounds.MinY - 1)..bounds.MaxY :
           out' = [op |-> "clipToBounds", x |-> x, y |-> y,
                   val |-> clipToBounds(kernel, bounds, x, y)]
  /\ UNCHANGED <<kernel, heap, call>>

NextClip == DoClip \/ Consume

SpecClip == InitClip /\ [][NextClip]_vars

----------------------------------------------------------------------------
(* Specification SpecKernel: a kernel is constructed and then used in a    *)
(* row of calls of its setters, with coordinates in and out of range and   *)
(* weight slices of the right and of a wrong length, and of apply.  Each   *)
(* call leaves in out what it was called with, the kernel it found and the *)
(* panic it ended in, if any.                                              *)

(* Coordinates the per-cell setters are called with *)
CellCoords(k) == {-1, 0, k.radius, k.sideLength - 1, k.sideLength}

UniformVals == {-1, 2}

RGBAVal == <<1, 0, -1, 2>>

WeightPairs == {<<1, 1>>, <<0, 1>>, <<-1, 2>>}

(* Lengths of the slices the bulk setters are called with *)
BulkLens(k) ==
  {n \in {k.sideLength * k.sideLength - 1, k.sideLength * k.sideLength,
          k.sideLength * k.sideLength + 1} : n >= 0}

UniformArrays(n) ==
  {[i \in 1..n |-> Pick(<<ab[1], ab[2], ab[2]>>, i)] : ab \in WeightPairs}

RGBAArraysOfLen(n) ==
  {[i \in 1..n |-> <<Pick(ab, i), ab[2], ab[1], i % 3>>] : ab \in WeightPairs}

(* The number of calls made so far *)
Calls == IF out = NoOut THEN 0 ELSE out.n

InitKernel ==
  /\ \E radius \in 0..MaxRadius : kernel = KernelWithRadius(radius)
  /\ heap = [b \in BufIds |->
              IF b = 1 THEN TestImage(Rectangle(0, 0, 2, 1), 1, 0) ELSE NoImage]
  /\ call = [c \in Callers |-> IdleCall]
  /\ out = NoOut

CallSetWeightRGBA ==
  /\ Calls < MaxCalls
  /\ \E x, y \in CellCoords(kernel) :
       /\ kernel' = SetWeightRGBA(kernel, x, y,
                                  RGBAVal[1], RGBAVal[2], RGBAVal[3], RGBAVal[4])
       /\ out' = [op |-> "SetWeightRGBA", n |-> Calls + 1, before |-> kernel,
                  x |-> x, y |-> y, arg |-> RGBAVal,
                  panic |-> indexPanic(kernel, x, y)]
  /\ UNCHANGED <<heap, call>>

CallSetWeightUniform ==
  /\ Calls < MaxCalls
  /\ \E x, y \in CellCoords(kernel), weight \in UniformVals :
       /\ kernel' = SetWeightUniform(kernel, x, y, weight)
       /\ out' = [op |-> "SetWeightUniform", n |-> Calls + 1, before |-> kernel,
                  x |-> x, y |-> y, arg |-> weight,
                  panic |-> indexPanic(kernel, x, y)]
  /\ UNCHANGED <<heap, call>>

CallSetWeightsRGBA ==
  /\ Calls < MaxCalls
  /\ \E n \in BulkLens(kernel) : \E weights \in RGBAArraysOfLen(n) :
       /\ kernel' = SetWeightsRGBA(kernel, weights)
       /\ out' = [op |-> "SetWeightsRGBA", n |-> Calls + 1, before |-> kernel,
                  arg |-> weights, panic |-> weightsPanic(kernel, Len(weights))]
  /\ UNCHANGED <<heap, call>>

CallSetWeightsUniform ==
  /\ Calls < MaxCalls
  /\ \E n \in BulkLens(kernel) : \E weights \in UniformArrays(n) :
       /\ kernel' = SetWeightsUniform(kernel, weights)
       /\ out' = [op |-> "SetWeightsUniform", n |-> Calls + 1, before |-> kernel,
                  arg |-> weights, panic |-> weightsPanic(kernel, Len(weights))]
  /\ UNCHANGED <<heap, call>>

(* k.ApplyAvg, k.ApplyMax or k.ApplyMin (img, 1), from call to return *)
CallApply ==
  /\ Calls < MaxCalls
  /\ \E name \in Ops :
       out' = [op |-> "apply", n |-> Calls + 1, before |-> kernel,
               arg |-> name, panic |-> NoPanic,
               val |-> SoloApply(name, kernel, heap[1])]
  /\ UNCHANGED <<kernel, heap, call>>

NextKernel ==
  \/ CallSetWeightRGBA
  \/ CallSetWeightUniform
  \/ CallSetWeightsRGBA
  \/ CallSetWeightsUniform
  \/ CallApply

SpecKernel == InitKernel /\ [][NextKernel]_vars

----------------------------------------------------------------------------
(* Specification SpecPasses: the closing of the README and of              *)
(* ExampleKernel_dilateErode.  A disk-shaped kernel of weights 0 and 1 is  *)
(* applied with ApplyMax a number of times and then with ApplyMin as many  *)
(* times, each pass on the image the pass before it returned.  heap[1] is  *)
(* the input image and heap[2] the caller's variable result.               *)

(* The kernel of radius r whose weight is 1 within the disk and 0 outside: *)
(* for radius 2 the weights of the example                                 *)
DiskKernel(r) ==
  SetWeightsUniform(KernelWithRadius(r),
    [i \in 1..((2 * r + 1) * (2 * r + 1)) |->
       LET s == (i - 1) \div (2 * r + 1)
           t == (i - 1) % (2 * r + 1)
       IN  IF (s - r) * (s - r) + (t - r) * (t - r) <= r * r + 1 THEN 1 ELSE 0])

(* An image over rect whose alpha is 255 on the pixels of the set opaque   *)
(* and 0 elsewhere                                                         *)
AlphaImage(rect, opaque) ==
  [kind |-> "NRGBA",
   Rect |-> rect,
   Pix |-> [pt \in Points(rect) |->
              <<10, 128, MaxByte, IF pt \in opaque THEN MaxByte ELSE 0>>]]

(* Images with one or two opaque pixels, or with one or two transparent    *)
(* pixels, of every size up to MaxDim                                      *)
AlphaImages ==
  UNION {{AlphaImage(Rectangle(1, -1, 1 + w, -1 + h), S) :
            S \in UNION {{{p, q}, Points(Rectangle(1, -1, 1 + w, -1 + h)) \ {p, q}} :
                           p, q \in Points(Rectangle(1, -1, 1 + w, -1 + h))}}
         : w, h \in 1..MaxDim}

(* result := img *)
InitPasses ==
  /\ \E r \in 0..MaxRadius : kernel = DiskKernel(r)
  /\ \E img \in AlphaImages :
       heap = [b \in BufIds |-> IF b \in {1, 2} THEN img ELSE NoImage]
  /\ call = [c \in Callers |-> IdleCall]
  /\ out = [op |-> "closing", dil |-> 0, ero |-> 0]

(* result = kernel.ApplyMax(result, parallelism) *)
PassMax ==
  /\ out.ero = 0
  /\ out.dil < MaxPasses
  /\ heap' = [heap EXCEPT ![2] = SoloApply("Max", kernel, heap[2])]
  /\ out' = [out EXCEPT !.dil = @ + 1]
  /\ UNCHANGED <<kernel, call>>

(* result = kernel.ApplyMin(result, parallelism) *)
PassMin ==
  /\ out.dil >= 1
  /\ out.ero < out.dil
  /\ heap' = [heap EXCEPT ![2] = SoloApply("Min", kernel, heap[2])]
  /\ out' = [out EXCEPT !.ero = @ + 1]
  /\ UNCHANGED <<kernel, call>>

NextPasses == PassMax \/ PassMin

SpecPasses == InitPasses /\ [][NextPasses]_vars

----------------------------------------------------------------------------
(* Specification SpecConv: the conversions between sRGB bytes and linear   *)
(* values, each byte decoded and encoded again by the table-backed pair    *)
(* and by the closed-form pair, and each entry of the encode table as      *)
(* init() computes it.                                                     *)

InitConv ==
  /\ kernel = KernelWithRadius(0)
  /\ heap = [b \in BufIds |-> NoImage]
  /\ call = [c \in Callers |-> IdleCall]
  /\ out = NoOut

DoRoundTrip ==
  /\ out = NoOut
  /\ \E y \in 0..MaxByte :
       out' = [op |-> "roundTrip", y |-> y,
               linear |-> lookupSRGB8ToLinear(y),
               table |-> lookupLinearToSRGB8(lookupSRGB8ToLinear(y)),
               closed |-> convertLinearToSRGB8(convertSRGB8ToLinear(y))]
  /\ UNCHANGED <<kernel, heap, call>>

(* linearToSRGB8LUT[i] = convertLinearToSRGB8(float64(i) / 511) *)
DoInitEntry ==
  /\ out = NoOut
  /\ \E i \in 0..LinearSteps :
       out' = [op |-> "init", i |-> i,
               val |-> convertLinearToSRGB8(RoundDiv(i * Scale, LinearSteps))]
  /\ UNCHANGED <<kernel, heap, call>>

NextConv == DoRoundTrip \/ DoInitEntry \/ Consume

SpecConv == InitConv /\ [][NextConv]_vars

----------------------------------------------------------------------------
(* Specification SpecChannels: the channel extraction of the README and of *)
(* ExampleKernel_channelExtraction.  A kernel is given weights that differ *)
(* from channel to channel, and Avg, Max and Min are each called twice on  *)
(* the same pixel: on the kernel and the image as they are, and on a       *)
(* second kernel and a second image that differ from them on the channels  *)
(* other than ch, or on ch as well.  ApplyAvg is called on the image.      *)

ChannelImages ==
  {TestImage(Rectangle(1, -1, 1 + w, -1 + h), 1, q) :
     w \in 1..MaxDim, h \in 1..MaxDim, q \in {0, 1}}

(* The colour c with its channels other than ch, and ch too if all is      *)
(* TRUE, replaced by other values                                          *)
OtherColor(c, ch, all) ==
  <<IF ch = 1 /\ ~all THEN c[1] ELSE (c[1] + 128) % (MaxByte + 1),
    IF ch = 2 /\ ~all THEN c[2] ELSE (c[2] + 128) % (MaxByte + 1),
    IF ch = 3 /\ ~all THEN c[3] ELSE (c[3] + 128) % (MaxByte + 1),
    IF ch = 4 /\ ~all THEN c[4] ELSE (c[4] + 128) % (MaxByte + 1)>>

OtherImage(img, ch, all) ==
  [kind |-> img.kind,
   Rect |-> img.Rect,
   Pix |-> [p \in DOMAIN img.Pix |-> OtherColor(img.Pix[p], ch, all)]]

(* The same for a kernel weight and for a kernel *)
OtherWeight(w, ch, all) ==
  <<IF ch = 1 /\ ~all THEN w[1] ELSE 1 - w[1],
    IF ch = 2 /\ ~all THEN w[2] ELSE 1 - w[2],
    IF ch = 3 /\ ~all THEN w[3] ELSE 1 - w[3],
    IF ch = 4 /\ ~all THEN w[4] ELSE 1 - w[4]>>

OtherKernel(k, ch, all) ==
  [radius |-> k.radius,
   sideLength |-> k.sideLength,
   weights |-> [i \in 1..Len(k.weights) |-> OtherWeight(k.weights[i], ch, all)]]

(* What the second call differs in: the other channels only, the kernel's  *)
(* channel ch as well, or the image's channel ch as well                   *)
Variations == {"others", "kernel", "image"}

InitChannels ==
  /\ \E radius \in 0..MaxRadius : kernel = KernelWithRadius(radius)
  /\ \E img \in ChannelImages :
       heap = [b \in BufIds |-> IF b = 1 THEN img ELSE NoImage]
  /\ call = [c \in Callers |-> IdleCall]
  /\ out = NoOut

(* kernel.SetWeightRGBA(0, 0, 0, 0, 1, 1) *)
SetExtraction ==
  /\ out = NoOut
  /\ kernel' = SetWeightRGBA(kernel, 0, 0, 0, 0, 1, 1)
  /\ UNCHANGED <<heap, call, out>>

SetChannelWeights ==
  /\ out = NoOut
  /\ \E ws \in RGBAArraysOfLen(kernel.sideLength * kernel.sideLength) :
       kernel' = SetWeightsRGBA(kernel, ws)
  /\ UNCHANGED <<heap, call, out>>

(* Two direct calls of k.Avg, k.Max or k.Min on the same pixel *)
DoOpTwice ==
  /\ out = NoOut
  /\ \E name \in Ops, pt \in Points(heap[1].Rect), ch \in Channels, v \in Variations :
       LET kernel2 == OtherKernel(kernel, ch, v = "kernel")
           img2 == OtherImage(heap[1], ch, v = "image")
       IN  out' = [op |-> name, x |-> pt[1], y |-> pt[2], ch |-> ch,
                   kernel2 |-> kernel2, img2 |-> img2,
                   val |-> Op(name, kernel, heap[1], pt[1], pt[2]),
                   val2 |-> Op(name, kernel2, img2, pt[1], pt[2])]
  /\ UNCHANGED <<kernel, heap, call>>

(* result := kernel.ApplyAvg(img, parallelism), from call to return *)
DoApplyAvg ==
  /\ out = NoOut
  /\ out' = [op |-> "ApplyAvg", val |-> SoloApply("Avg", kernel, heap[1])]
  /\ UNCHANGED <<kernel, heap, call>>

NextChannels ==
  \/ SetExtraction
  \/ SetChannelWeights
  \/ DoOpTwice
  \/ DoApplyAvg
  \/ Consume

SpecChannels == InitChannels /\ [][NextChannels]_vars

----------------------------------------------------------------------------
(* Specification Spec: two callers share one configured kernel and each    *)
(* calls ApplyAvg, ApplyMax or ApplyMin on an image that is held: the      *)
(* input image, at the same time as the other caller or not, or the image  *)
(* the other caller's call has returned.  Each call runs apply, whose      *)
(* goroutines take one step at a time in any order.                        *)

(* Kernels as configured before use: the 1 x 1 unit kernel and a 3 x 3     *)
(* kernel whose channels differ.                                           *)
SpecKernels ==
  {SetWeightsUniform(KernelWithRadius(0), <<1>>),
   SetWeightsRGBA(KernelWithRadius(1),
                  [i \in 1..9 |-> <<1, Pick(<<2, 0>>, i), i - 1,
                                    IF i = 5 THEN 8 ELSE -1>>])}

(* Input images: two rows away from the origin, one row of two columns,    *)
(* two rows of no columns, and a Gray image of two rows.                   *)
SpecImages ==
  {TestImage(Rectangle(1, -1, 2, 1), 1, 1),
   TestImage(Rectangle(0, 0, 2, 1), 1, 0),
   TestImage(Rectangle(0, 0, 0, 2), 0, 0),
   GrayImage(Rectangle(0, 0, 1, 2), 0, 1)}

Init ==
  /\ kernel \in SpecKernels
  /\ \E img \in SpecImages :
       heap = [b \in BufIds |-> IF b = 1 THEN img ELSE NoImage]
  /\ call = [c \in Callers |-> IdleCall]
  /\ out = NoOut

InFlight(c) == call[c].pc \in {"launch", "wait"}

(* The input copy convertImageToNRGBA made for c's call, if it made one *)
Converted(c) ==
  IF call[c].pc # "idle" /\ call[c].img # call[c].src THEN {call[c].img} ELSE {}

(* The images the callers hold: all but the buffers local to a call that   *)
(* has not returned                                                        *)
HeldIds ==
  AllocatedIds \ UNION {Converted(c) \cup (IF InFlight(c) THEN {call[c].result} ELSE {})
                        : c \in Callers}

resultBuffer_inPlace(img, free) == img

resultBuffer_cached(img, free) == MaxBufs

(* result := image.NewNRGBA(bounds): a buffer not in use *)
resultBuffer(img, free) == SetMin(free)

launchLoop_doWhile(worker, parallelism) ==
  IF worker = 0 \/ worker < parallelism THEN "launch" ELSE "wait"

(* for worker := 0; worker < parallelism; worker++: the loop goes on to    *)
(* start another goroutine, or is over and allDone.Wait() is next          *)
launchLoop(worker, parallelism) ==
  IF worker < parallelism THEN "launch" ELSE "wait"

WorkerStartRow_blocks(bounds, workerNum, parallelism) ==
  bounds.MinY + workerNum * parallelism

WorkerStartRow_capturedLoopVar(bounds, workerNum, parallelism) ==
  bounds.MinY + parallelism

(* i := bounds.Min.Y + workerNum, workerNum being the goroutine's own copy *)
(* of the loop variable                                                    *)
WorkerStartRow(bounds, workerNum, parallelism) == bounds.MinY + workerNum

writePixel_swapped(img, j, i, c) == SetNRGBA(img, i, j, c)

(* result.SetNRGBA(j, i, op(img, j, i)) *)
writePixel(img, j, i, c) == SetNRGBA(img, j, i, c)

allDoneDone_forgotten(wg) == wg

(* defer allDone.Done(): the counter goes down by one *)
allDoneDone(wg) == wg - 1

allDoneWait_noBarrier(c) == TRUE

(* allDone.Wait() returns once the counter is zero *)
allDoneWait(c) == call[c].wg = 0

(* k.ApplyAvg / ApplyMax / ApplyMin (img, parallelism) up to the start of  *)
(* apply's loop: convertImageToNRGBA, bounds, result, allDone.Add.         *)
ApplyStart(c, name, src, P) ==
  /\ call[c].pc = "idle"
  /\ src \in HeldIds
  /\ LET isNRGBA == heap[src].kind = "NRGBA"
     IN  /\ Cardinality(FreeIds) >= (IF isNRGBA THEN 1 ELSE 2)
         /\ LET img == IF isNRGBA THEN src ELSE SetMin(FreeIds)
                heap1 == IF isNRGBA THEN heap
                         ELSE [heap EXCEPT ![img] = drawToNRGBA(heap[src])]
                res == resultBuffer(img, {b \in BufIds : heap1[b] = NoImage})
            IN  /\ heap' = [heap1 EXCEPT ![res] = NewNRGBA(heap1[img].Rect)]
                /\ call' = [call EXCEPT ![c] =
                     [pc |-> launchLoop(0, P),
                      op |-> name,
                      parallelism |-> P,
                      src |-> src,
                      img |-> img,
                      result |-> res,
                      worker |-> 0,
                      wg |-> P,
                      w |-> << >>,
                      visits |-> << >>,
                      src0 |-> heap[src],
                      free0 |-> FreeIds,
                      overlapped |-> \E d \in Callers \ {c} : InFlight(d)]]
  /\ UNCHANGED <<kernel, out>>

(* One iteration of the loop that starts the goroutines *)
Launch(c) ==
  /\ call[c].pc = "launch"
  /\ LET k == call[c].worker
         bounds == heap[call[c].img].Rect
     IN  call' = [call EXCEPT
           ![c].w = @ @@ (k :> [pc |-> "run",
                                i |-> WorkerStartRow(bounds, k, call[c].parallelism),
                                j |-> bounds.MinX,
                                px |-> {}]),
           ![c].worker = k + 1,
           ![c].pc = launchLoop(k + 1, call[c].parallelism)]
  /\ UNCHANGED <<kernel, heap, out>>

Running(c, k) ==
  /\ call[c].pc # "idle"
  /\ k \in DOMAIN call[c].w
  /\ call[c].w[k].pc = "run"

(* Goroutine k of c's call in the column loop, as far as its own frame     *)
(* goes: j < bounds.Max.X holds, the pixel (j, i) is visited, j++.  px     *)
(* keeps the pixels the goroutine has written.                             *)
WorkerColumn(c, k) ==
  /\ Running(c, k)
  /\ LET i == call[c].w[k].i
         j == call[c].w[k].j
         bounds == heap[call[c].img].Rect
     IN  /\ i < bounds.MaxY
         /\ j < bounds.MaxX
         /\ call' = [call EXCEPT
               ![c].w[k].j = j + 1,
               ![c].w[k].px = @ \cup {<<j, i>>},
               ![c].visits = IF <<j, i>> \in DOMAIN @
                             THEN [@ EXCEPT ![<<j, i>>] = @ + 1]
                             ELSE @ @@ (<<j, i>> :> 1)]

(* Goroutine k of c's call: the body of the column loop for one pixel *)
WorkerPixel(c, k) ==
  /\ WorkerColumn(c, k)
  /\ LET i == call[c].w[k].i
         j == call[c].w[k].j
         img == heap[call[c].img]
     IN  heap' = [heap EXCEPT ![call[c].result] =
                    writePixel(@, j, i, Op(call[c].op, kernel, img, j, i))]
  /\ UNCHANGED <<kernel, out>>

(* Goroutine k: the column loop is over, i += parallelism *)
WorkerNextRow(c, k) ==
  /\ Running(c, k)
  /\ LET i == call[c].w[k].i
         j == call[c].w[k].j
         bounds == heap[call[c].img].Rect
     IN  /\ i < bounds.MaxY
         /\ j >= bounds.MaxX
         /\ call' = [call EXCEPT ![c].w[k].i = i + call[c].parallelism,
                                 ![c].w[k].j = bounds.MinX]
  /\ UNCHANGED <<kernel, heap, out>>

(* Goroutine k: the row loop is over, the deferred allDone.Done() runs *)
WorkerDone(c, k) ==
  /\ Running(c, k)
  /\ call[c].w[k].i >= heap[call[c].img].Rect.MaxY
  /\ call' = [call EXCEPT ![c].w[k].pc = "done", ![c].wg = allDoneDone(@)]
  /\ UNCHANGED <<kernel, heap, out>>

(* allDone.Wait() is passed and apply returns result *)
ApplyReturn(c) ==
  /\ call[c].pc = "wait"
  /\ allDoneWait(c)
  /\ call' = [call EXCEPT ![c].pc = "returned"]
  /\ UNCHANGED <<kernel, heap, out>>

WorkerIds == 0..(MaxParallelism - 1)

Next ==
  \/ \E c \in Callers, name \in Ops, src \in BufIds, P \in 0..MaxParallelism :
       ApplyStart(c, name, src, P)
  \/ \E c \in Callers : Launch(c)
  \/ \E c \in Callers, k \in WorkerIds : WorkerPixel(c, k)
  \/ \E c \in Callers, k \in WorkerIds : WorkerNextRow(c, k)
  \/ \E c \in Callers, k \in WorkerIds : WorkerDone(c, k)
  \/ \E c \in Callers : ApplyReturn(c)

Spec == Init /\ [][Next]_vars

----------------------------------------------------------------------------
(* Specification SpecApply: one call of ApplyAvg, ApplyMax or ApplyMin by  *)
(* one caller, on images of no row, of no column and of up to MaxDim rows, *)
(* with no worker, with fewer workers than rows and with more.             *)
(* SpecApplyFair is the same under the scheduling of the Go runtime: a     *)
(* goroutine that can run does run, be it a worker or the caller.          *)

ApplyImages ==
  {TestImage(Rectangle(1, -1, 1 + w, -1 + h), 1, 1) :
     w \in {0, 1, 2}, h \in 0..MaxDim}

(* Kernels of one cell: unit weight, and the weights of the channel        *)
(* extraction                                                              *)
ApplyKernels ==
  {SetWeightsUniform(KernelWithRadius(0), <<1>>),
   SetWeightRGBA(KernelWithRadius(0), 0, 0, 0, 0, 1, 1)}

InitApply ==
  /\ kernel \in ApplyKernels
  /\ \E img \in ApplyImages :
       heap = [b \in BufIds |-> IF b = 1 THEN img ELSE NoImage]
  /\ call = [c \in Callers |-> IdleCall]
  /\ out = NoOut

NextApply ==
  \/ \E name \in Ops, P \in 0..MaxParallelism : ApplyStart("a", name, 1, P)
  \/ Launch("a")
  \/ \E k \in WorkerIds : WorkerPixel("a", k)
  \/ \E k \in WorkerIds : WorkerNextRow("a", k)
  \/ \E k \in WorkerIds : WorkerDone("a", k)
  \/ ApplyReturn("a")

SpecApply == InitApply /\ [][NextApply]_vars

(* Each goroutine's step changes its frame in call, so fairness is stated  *)
(* on the steps as they show in call: the caller's launch loop, each       *)
(* worker's loops and its deferred Done, and the caller's return from      *)
(* allDone.Wait().                                                         *)
FairApply ==
  /\ WF_call(Launch("a"))
  /\ \A k \in WorkerIds :
       WF_call(WorkerColumn("a", k) \/ WorkerNextRow("a", k) \/ WorkerDone("a", k))
  /\ WF_call(ApplyReturn("a"))

SpecApplyFair == InitApply /\ [][NextApply]_vars /\ FairApply

----------------------------------------------------------------------------
(* Claims about apply, under Spec *)

Returned(c) == call[c].pc = "returned"

(* c's call has returned and its parallelism was at least 1 *)
ReturnedP(c) == Returned(c) /\ call[c].parallelism >= 1

CallImg(c) == heap[call[c].img]

CallResult(c) == heap[call[c].result]

(* Some channel of some pixel of the image is not zero *)
NotBlank(img) == \E p \in DOMAIN img.Pix : img.Pix[p] # ZeroColor

(* C1: whatever the bounds and the parallelism, apply calls op exactly     *)
(* once for every pixel of the bounds and for no other coordinate, and the *)
(* image returned has the bounds of the input and holds at each pixel the  *)
(* value op returns for it.                                                *)
C1_EveryPixelOnce ==
  \A c \in Callers :
    /\ call[c].pc # "idle" =>
         /\ DOMAIN call[c].visits \subseteq Points(CallImg(c).Rect)
         /\ \A p \in DOMAIN call[c].visits : call[c].visits[p] = 1
    /\ ReturnedP(c) =>
         /\ DOMAIN call[c].visits = Points(CallImg(c).Rect)
         /\ CallResult(c).Rect = CallImg(c).Rect
         /\ \A p \in Points(CallImg(c).Rect) :
              CallResult(c).Pix[p] = Op(call[c].op, kernel, CallImg(c), p[1], p[2])

(* A call with two workers on the image whose origin is (1, -1) has        *)
(* returned an image that is not blank.                                    *)
C1_Witness ==
  \E c \in Callers :
    /\ Returned(c)
    /\ call[c].parallelism = 2
    /\ CallImg(c).Rect = Rectangle(1, -1, 2, 1)
    /\ NotBlank(CallResult(c))

(* C2: two calls with the same operator on images of equal bounds and      *)
(* pixels return equal images, whatever their parallelism and however      *)
(* their workers' steps interleave.                                        *)
C2_SameOutputAnyParallelism ==
  \A c, d \in Callers :
    (/\ ReturnedP(c) /\ ReturnedP(d)
     /\ call[c].op = call[d].op
     /\ CallImg(c) = CallImg(d))
    => CallResult(c) = CallResult(d)

(* A call of parallelism 1 and a call of parallelism 2 of the same         *)
(* operator on the same image of two rows have both returned.              *)
C2_Witness ==
  \E c, d \in Callers :
    /\ Returned(c) /\ Returned(d)
    /\ call[c].parallelism = 1 /\ call[d].parallelism = 2
    /\ call[c].op = call[d].op
    /\ CallImg(c) = CallImg(d)
    /\ CallImg(c).Rect.MaxY - CallImg(c).Rect.MinY = 2
    /\ NotBlank(CallResult(c))

(* C3: when apply has returned, every worker was launched and has          *)
(* finished and every pixel of the bounds has been written; and the pixels *)
(* of an image change only while it is the result of a call that has not   *)
(* returned.                                                               *)
C3_ReturnAfterAllWorkers ==
  /\ [](\A c \in Callers :
          ReturnedP(c) =>
            /\ call[c].wg = 0
            /\ DOMAIN call[c].w = 0..(call[c].parallelism - 1)
            /\ \A k \in DOMAIN call[c].w : call[c].w[k].pc = "done"
            /\ DOMAIN call[c].visits = Points(CallImg(c).Rect))
  /\ [][\A b \in BufIds :
          (heap[b] # NoImage /\ heap'[b] # NoImage /\ heap'[b] # heap[b])
          => \E c \in Callers : InFlight(c) /\ call[c].result = b]_vars

(* A call with two workers has returned, both workers having written. *)
C3_Witness ==
  \E c \in Callers :
    /\ Returned(c)
    /\ call[c].parallelism = 2
    /\ \A k \in {0, 1} : \E p \in DOMAIN call[c].visits :
         p[2] = CallImg(c).Rect.MinY + k

(* C4: the image a call returns is in a buffer that was not in use when    *)
(* the call began, hence not the caller's image nor the input of apply;    *)
(* it is an NRGBA image of the input's bounds; and throughout the call and *)
(* after it the caller's image is as it was when the call began.           *)
C4_FreshResultInputUntouched ==
  \A c \in Callers :
    /\ call[c].pc # "idle" => heap[call[c].src] = call[c].src0
    /\ Returned(c) =>
         /\ call[c].result \in call[c].free0
         /\ call[c].result # call[c].src
         /\ call[c].result # call[c].img
         /\ CallResult(c).kind = "NRGBA"
         /\ CallResult(c).Rect = call[c].src0.Rect

(* A call on an NRGBA image, passed to apply as it is, has returned an     *)
(* image that differs from the input.                                      *)
C4_Witness ==
  \E c \in Callers :
    /\ Returned(c)
    /\ call[c].src0.kind = "NRGBA"
    /\ call[c].img = call[c].src
    /\ NotBlank(call[c].src0)
    /\ CallResult(c).Pix # call[c].src0.Pix

(* C5: no step of an apply call changes the kernel, and every call, also   *)
(* one that runs while another call uses the same kernel or whose input is *)
(* the output of an earlier call, returns what it returns when run alone:  *)
(* the image a single worker computes row by row (the blank image if the   *)
(* call has no worker).                                                    *)
C5_KernelSharedReadOnly ==
  /\ [][kernel' = kernel]_vars
  /\ [](\A c \in Callers :
          Returned(c) =>
            CallResult(c) = IF call[c].parallelism >= 1
                            THEN SoloApply(call[c].op, kernel, CallImg(c))
                            ELSE NewNRGBA(CallImg(c).Rect))

(* Two calls of different operators that ran at the same time have         *)
(* returned different images.                                              *)
C5_Witness ==
  \E c, d \in Callers :
    /\ Returned(c) /\ Returned(d)
    /\ call[d].overlapped
    /\ call[c].op # call[d].op
    /\ CallResult(c) # CallResult(d)

(* A call whose input is the image an earlier call returned has returned. *)
C5_WitnessIterated ==
  \E c \in Callers :
    /\ Returned(c)
    /\ call[c].src # 1
    /\ NotBlank(CallResult(c))

----------------------------------------------------------------------------
(* What the aggregation operators are to compute, stated on the image and  *)
(* the kernel without the clip arithmetic or the loops                     *)

RECURSIVE SumFn(_, _)
SumFn(f, S) ==
  IF S = {} THEN 0
  ELSE LET p == CHOOSE q \in S : TRUE IN f[p] + SumFn(f, S \ {p})

(* The pixels of img within the kernel's reach of (x, y) *)
Footprint(k, img, x, y) ==
  {p \in Points(img.Rect) :
     /\ x - k.radius <= p[1] /\ p[1] <= x + k.radius
     /\ y - k.radius <= p[2] /\ p[2] <= y + k.radius}

(* The weight the kernel centred on (x, y) lays on pixel p, channel ch *)
CellWeight(k, x, y, p, ch) ==
  WeightAt(k, (p[2] - y + k.radius) * k.sideLength + (p[1] - x + k.radius))[ch]

Linear(img, p, ch) == lookupSRGB8ToLinear(img.Pix[p][ch])

RefTotal(k, img, x, y, ch) ==
  LET F == Footprint(k, img, x, y)
  IN  SumFn([p \in F |-> CellWeight(k, x, y, p, ch)], F)

RefSum(k, img, x, y, ch) ==
  LET F == Footprint(k, img, x, y)
  IN  SumFn([p \in F |-> CellWeight(k, x, y, p, ch) * Linear(img, p, ch)], F)

(* The pixels of the footprint whose weight on channel ch is not zero *)
NonZero(k, img, x, y, ch) ==
  {p \in Footprint(k, img, x, y) : CellWeight(k, x, y, p, ch) # 0}

OutImg == heap[1]

OutFootprint == Footprint(kernel, OutImg, out.x, out.y)

OutNonZero(ch) == NonZero(kernel, OutImg, out.x, out.y, ch)

OutWeight(p, ch) == CellWeight(kernel, out.x, out.y, p, ch)

OutTotal(ch) == RefTotal(kernel, OutImg, out.x, out.y, ch)

OutSum(ch) == RefSum(kernel, OutImg, out.x, out.y, ch)

(* The footprint is smaller than the kernel: the window is clipped *)
OutClipped == Cardinality(OutFootprint) < kernel.sideLength * kernel.sideLength

----------------------------------------------------------------------------
(* C6: when a channel's total weight over the clipped window is positive,  *)
(* Avg returns the encoding of (sum of weight * decoded value) / (sum of   *)
(* weight) over exactly the pixels of the footprint that lie in the image; *)
(* with one positive weight on all of them this is the encoding of the     *)
(* arithmetic mean of their decoded values.                                *)
C6_AvgIsWeightedMean ==
  out.op = "Avg" =>
    \A ch \in Channels :
      OutTotal(ch) > 0 =>
        /\ out.val[ch] = lookupLinearToSRGB8(RoundDiv(OutSum(ch), OutTotal(ch)))
        /\ (\E w \in WeightVals : \A p \in OutFootprint : OutWeight(p, ch) = w)
             => out.val[ch] =
                  lookupLinearToSRGB8(
                    RoundDiv(SumFn([p \in OutFootprint |-> Linear(OutImg, p, ch)],
                                   OutFootprint),
                             Cardinality(OutFootprint)))

(* Avg was called with a kernel of radius 2 clipped by a 3 x 3 image, a    *)
(* channel has one positive weight on the whole window, and the pixels of  *)
(* the window differ on that channel.                                      *)
C6_Witness ==
  /\ out.op = "Avg"
  /\ kernel.radius = 2
  /\ OutImg.Rect.MaxX - OutImg.Rect.MinX = 3
  /\ OutImg.Rect.MaxY - OutImg.Rect.MinY = 3
  /\ OutClipped
  /\ \E ch \in Channels :
       /\ \E w \in WeightVals : w > 0 /\ \A p \in OutFootprint : OutWeight(p, ch) = w
       /\ \E p, q \in OutFootprint : OutImg.Pix[p][ch] # OutImg.Pix[q][ch]
       /\ out.val[ch] > 0

C8_MaxIsGreatestWeighted ==
  out.op = "Max" =>
    \A ch \in Channels :
      OutNonZero(ch) # {} =>
        \E p \in OutNonZero(ch) :
          /\ \A q \in OutNonZero(ch) :
               OutWeight(p, ch) * Linear(OutImg, p, ch)
                 >= OutWeight(q, ch) * Linear(OutImg, q, ch)
          /\ out.val[ch] = lookupLinearToSRGB8(Linear(OutImg, p, ch))

(* C9: Min returns, per channel, the value of a pixel whose weight * value *)
(* is the least among the window's entries of nonzero weight.              *)
C9_MinIsLeastWeighted ==
  out.op = "Min" =>
    \A ch \in Channels :
      OutNonZero(ch) # {} =>
        \E p \in OutNonZero(ch) :
          /\ \A q \in OutNonZero(ch) :
               OutWeight(p, ch) * Linear(OutImg, p, ch)
                 <= OutWeight(q, ch) * Linear(OutImg, q, ch)
          /\ out.val[ch] = lookupLinearToSRGB8(Linear(OutImg, p, ch))

(* Channel ch of every kernel weight is 0 or 1 *)
ZeroOne(ch) == \A i \in 1..Len(kernel.weights) : kernel.weights[i][ch] \in {0, 1}

MaxOf(S) == CHOOSE m \in S : \A n \in S : n <= m

MinOf(S) == CHOOSE m \in S : \A n \in S : m <= n

(* C10: on a channel whose kernel weights are each 0 or 1, Max (Min) is    *)
(* the encoding of the greatest (least) channel value among the window's   *)
(* pixels of nonzero weight; the pixels of zero weight have no part in it. *)
C10_ZeroWeightIgnored ==
  out.op \in {"Max", "Min"} =>
    \A ch \in Channels :
      (ZeroOne(ch) /\ OutNonZero(ch) # {}) =>
        LET vals == {OutImg.Pix[p][ch] : p \in OutNonZero(ch)}
        IN  out.val[ch] =
              lookupLinearToSRGB8(lookupSRGB8ToLinear(
                IF out.op = "Max" THEN MaxOf(vals) ELSE MinOf(vals)))

(* Max was called on a window where a pixel of zero weight holds a value   *)
(* above every pixel of nonzero weight, and the result is below it.        *)
C10_Witness ==
  /\ out.op = "Max"
  /\ \E ch \in Channels :
       /\ ZeroOne(ch)
       /\ OutNonZero(ch) # {}
       /\ \E z \in OutFootprint \ OutNonZero(ch) :
            /\ \A p \in OutNonZero(ch) : OutImg.Pix[p][ch] < OutImg.Pix[z][ch]
            /\ out.val[ch] < OutImg.Pix[z][ch]
       /\ out.val[ch] > 0

----------------------------------------------------------------------------
(* C11: when the weights of a channel are zero on every pixel of the       *)
(* clipped window, whatever the pixels hold, Avg returns 0, Max returns 0  *)
(* and Min returns 255 on that channel; the call returns a colour in all   *)
(* cases.                                                                  *)
C11_DegenerateWindowFallback ==
  out.op \in Ops =>
    \A ch \in Channels :
      OutNonZero(ch) = {} =>
        out.val[ch] = IF out.op = "Min" THEN MaxByte ELSE 0

(* Min was called on a window clipped by the image, a channel of which has *)
(* zero weight on every pixel of the window and a nonzero weight on a cell *)
(* the clip leaves out, the pixels holding values other than 0 and 255 on  *)
(* that channel.                                                           *)
C11_Witness ==
  /\ out.op = "Min"
  /\ OutClipped
  /\ \E ch \in Channels :
       /\ OutNonZero(ch) = {}
       /\ \E i \in 1..Len(kernel.weights) : kernel.weights[i][ch] # 0
       /\ \E p \in OutFootprint : OutImg.Pix[p][ch] \notin {0, MaxByte}
       /\ out.val[ch] = MaxByte

----------------------------------------------------------------------------
(* C12: with the kernel of radius 0 whose one weight is 1 on every         *)
(* channel, ApplyAvg, ApplyMax and ApplyMin return the input image: every  *)
(* channel of every pixel of the result equals that of the input.          *)
C12_UnitKernelIdentity ==
  \A c \in Callers :
    (/\ ReturnedP(c)
     /\ kernel.radius = 0
     /\ kernel.weights = << <<1, 1, 1, 1>> >>)
    => CallResult(c).Pix = CallImg(c).Pix

----------------------------------------------------------------------------
(* C13: each side of the clip is radius - d if the distance d from the     *)
(* centre to that edge of the bounds is less than radius and 0 otherwise,  *)
(* the four sides each from their own distance; this is the number of      *)
(* kernel columns (rows) that fall beyond that edge.  A centre at least    *)
(* radius away from every edge gets no clip, and a centre one pixel        *)
(* outside an edge gets radius + 1 on that side.                           *)
ClipOf(d, radius) == IF d < radius THEN radius - d ELSE 0

C13_ClipPerSide ==
  out.op = "clipToBounds" =>
    LET b == heap[1].Rect
        r == kernel.radius
        dL == out.x - b.MinX
        dR == b.MaxX - 1 - out.x
        dT == out.y - b.MinY
        dB == b.MaxY - 1 - out.y
        cols == 0..(kernel.sideLength - 1)
    IN  /\ out.val = [Left |-> ClipOf(dL, r), Right |-> ClipOf(dR, r),
                      Top |-> ClipOf(dT, r), Bottom |-> ClipOf(dB, r)]
        /\ out.val.Left = Cardinality({t \in cols : out.x + t - r < b.MinX})
        /\ out.val.Right = Cardinality({t \in cols : out.x + t - r >= b.MaxX})
        /\ out.val.Top = Cardinality({t \in cols : out.y + t - r < b.MinY})
        /\ out.val.Bottom = Cardinality({t \in cols : out.y + t - r >= b.MaxY})
        /\ (dL >= r /\ dR >= r /\ dT >= r /\ dB >= r)
             => out.val = [Left |-> 0, Right |-> 0, Top |-> 0, Bottom |-> 0]
        /\ dL = -1 => out.val.Left = r + 1
        /\ dR = -1 => out.val.Right = r + 1
        /\ dT = -1 => out.val.Top = r + 1
        /\ dB = -1 => out.val.Bottom = r + 1

(* clipToBounds was called with a kernel of radius 2 on a centre one pixel *)
(* left of the bounds in their top row: the clip is 3 on the left and 2 on *)
(* the top, and the bounds do not start at the origin.                     *)
C13_Witness ==
  /\ out.op = "clipToBounds"
  /\ kernel.radius = 2
  /\ heap[1].Rect.MinX = 1
  /\ out.x = heap[1].Rect.MinX - 1
  /\ out.y = heap[1].Rect.MinY
  /\ out.val.Left = 3
  /\ out.val.Top = 2

(* clipToBounds was called on a centre that is at least radius away from   *)
(* every edge, with a kernel of radius 1.                                  *)
C13_WitnessInterior ==
  /\ out.op = "clipToBounds"
  /\ kernel.radius = 1
  /\ out.val = [Left |-> 0, Right |-> 0, Top |-> 0, Bottom |-> 0]

----------------------------------------------------------------------------
(* Claims about the setters, under SpecKernel *)

BulkSetters == {"SetWeightsRGBA", "SetWeightsUniform"}

(* Some weight of k is not zero on some channel *)
HasWeights(k) == \E i \in 1..Len(k.weights) : k.weights[i] # ZeroWeight

(* C14: SetWeightsRGBA and SetWeightsUniform, called with a slice whose    *)
(* length is not sideLength * sideLength, panic with a message that holds  *)
(* the radius, the expected count and the count provided, and leave the    *)
(* kernel as it was; with a slice of the right length they do not panic.   *)
C14_WrongLengthPanicsUnchanged ==
  out.op \in BulkSetters =>
    LET expected == out.before.sideLength * out.before.sideLength
    IN  /\ Len(out.arg) # expected =>
             /\ out.panic = [kind |-> "panic", radius |-> out.before.radius,
                             expected |-> expected, provided |-> Len(out.arg)]
             /\ kernel = out.before
        /\ Len(out.arg) = expected => out.panic = NoPanic

(* SetWeightsUniform was called with 8 weights on a kernel of radius 1     *)
(* that held weights set by an earlier call, and has panicked.             *)
C14_Witness ==
  /\ out.op = "SetWeightsUniform"
  /\ out.before.radius = 1
  /\ Len(out.arg) = 8
  /\ HasWeights(out.before)
  /\ out.panic # NoPanic

(* The kernel after SetWeightUniform(i mod sideLength, i div sideLength,   *)
(* ws[i]) has been called for i = lo, lo + 1, ... up to the last index of  *)
(* ws, in this order, k being the kernel before the call for lo            *)
RECURSIVE PerCellUniform(_, _, _)
PerCellUniform(k, ws, lo) ==
  IF lo >= Len(ws) THEN k
  ELSE LET next == SetWeightUniform(k, lo % k.sideLength, lo \div k.sideLength,
                                    ws[lo + 1])
       IN  IF next.radius = k.radius THEN PerCellUniform(next, ws, lo + 1) ELSE next

(* The same with SetWeightRGBA and the four channels of ws[i] *)
RECURSIVE PerCellRGBA(_, _, _)
PerCellRGBA(k, ws, lo) ==
  IF lo >= Len(ws) THEN k
  ELSE LET next == SetWeightRGBA(k, lo % k.sideLength, lo \div k.sideLength,
                                 ws[lo + 1][1], ws[lo + 1][2],
                                 ws[lo + 1][3], ws[lo + 1][4])
       IN  IF next.radius = k.radius THEN PerCellRGBA(next, ws, lo + 1) ELSE next

(* C15: a bulk setter called with sideLength * sideLength weights leaves   *)
(* the kernel as the per-cell setter does when called for every index i on *)
(* cell (i mod sideLength, i div sideLength) with weights[i]: whatever the *)
(* kernel held, cell i then holds weights[i], on all four channels for the *)
(* uniform setter and channel by channel for the RGBA setter.              *)
C15_BulkIsPerCell ==
  (out.op \in BulkSetters /\ out.panic = NoPanic) =>
    /\ Len(kernel.weights) = Len(out.arg)
    /\ out.op = "SetWeightsUniform" =>
         /\ kernel = PerCellUniform(out.before, out.arg, 0)
         /\ \A i \in 1..Len(out.arg) :
              kernel.weights[i] = <<out.arg[i], out.arg[i], out.arg[i], out.arg[i]>>
    /\ out.op = "SetWeightsRGBA" =>
         /\ kernel = PerCellRGBA(out.before, out.arg, 0)
         /\ \A i \in 1..Len(out.arg) : kernel.weights[i] = out.arg[i]

(* SetWeightsRGBA was called with 25 weights, not all the same, on a       *)
(* kernel of radius 2 that held weights set by an earlier call, and has    *)
(* changed it.                                                             *)
C15_Witness ==
  /\ out.op = "SetWeightsRGBA"
  /\ out.panic = NoPanic
  /\ kernel.radius = 2
  /\ HasWeights(out.before)
  /\ kernel # out.before
  /\ \E i, j \in 1..Len(out.arg) : out.arg[i] # out.arg[j]

(* C16: from KernelWithRadius(r) on, through every call of a setter,       *)
(* whether it panics or not, and of apply, the kernel keeps its radius,    *)
(* its sideLength is 2 * radius + 1, which SideLength() returns, and it    *)
(* holds sideLength * sideLength weights.                                  *)
C16_KernelShape ==
  /\ [](/\ kernel.radius >= 0
        /\ kernel.sideLength = 2 * kernel.radius + 1
        /\ SideLength(kernel) = 2 * kernel.radius + 1
        /\ Len(kernel.weights) = kernel.sideLength * kernel.sideLength)
  /\ [][kernel'.radius = kernel.radius]_vars

(* The second call on a kernel of radius 2 was a per-cell setter that      *)
(* panicked, the first having set weights.                                 *)
C16_Witness ==
  /\ out.op = "SetWeightUniform"
  /\ out.n = 2
  /\ kernel.radius = 2
  /\ out.panic # NoPanic
  /\ HasWeights(out.before)

(* The second call on a kernel was an apply, the first having set weights. *)
C16_WitnessApply ==
  /\ out.op = "apply"
  /\ out.n = 2
  /\ HasWeights(kernel)
  /\ NotBlank(out.val)

----------------------------------------------------------------------------
(* C17: after n >= 1 passes of ApplyMax and then n passes of ApplyMin with *)
(* the same disk-shaped kernel on an image whose alpha is 0 or 255, every  *)
(* pixel whose alpha was 255 in the input has alpha 255 in the result, the *)
(* pixels at the edges of the image included.                              *)
Opaque(img) == {p \in DOMAIN img.Pix : img.Pix[p][4] = MaxByte}

C17_ClosingKeepsOpaque ==
  (out.op = "closing" /\ out.dil >= 1 /\ out.ero = out.dil) =>
    Opaque(heap[1]) \subseteq Opaque(heap[2])

(* Two dilations and two erosions with the disk of radius 1 are done on an *)
(* image that had an opaque pixel in a corner and a transparent pixel.     *)
C17_Witness ==
  /\ out.op = "closing"
  /\ out.dil = 2
  /\ out.ero = 2
  /\ kernel.radius = 1
  /\ <<heap[1].Rect.MinX, heap[1].Rect.MinY>> \in Opaque(heap[1])
  /\ Opaque(heap[1]) # DOMAIN heap[1].Pix

(* One dilation and one erosion with the disk of radius 1 are done on an   *)
(* image that had an opaque pixel in a corner, and a pixel that was        *)
(* transparent is transparent in the result.                               *)
C17_WitnessPartial ==
  /\ out.op = "closing"
  /\ out.dil = 1
  /\ out.ero = 1
  /\ kernel.radius = 1
  /\ <<heap[1].Rect.MinX, heap[1].Rect.MinY>> \in Opaque(heap[1])
  /\ Opaque(heap[2]) # DOMAIN heap[2].Pix

(* One dilation and one erosion with the disk of radius 2 are done and     *)
(* have made a transparent pixel opaque.                                   *)
C17_WitnessClosed ==
  /\ out.op = "closing"
  /\ out.dil = 1
  /\ out.ero = 1
  /\ kernel.radius = 2
  /\ Opaque(heap[1]) # {}
  /\ Opaque(heap[2]) # Opaque(heap[1])

----------------------------------------------------------------------------
(* C18: every channel Avg, Max and Min return is within 0..255, and the    *)
(* value Avg has aggregated (the weighted sum, divided by the total weight *)
(* if that is positive) is written as 0 if it is 0.0 or less and as 255 if *)
(* it is 1.0 or more.                                                      *)
OutAggregate(ch) ==
  IF OutTotal(ch) > 0 THEN RoundDiv(OutSum(ch), OutTotal(ch)) ELSE OutSum(ch)

C18_OutputSaturates ==
  out.op \in Ops =>
    \A ch \in Channels :
      /\ out.val[ch] \in 0..MaxByte
      /\ out.op = "Avg" =>
           /\ OutAggregate(ch) <= 0 => out.val[ch] = 0
           /\ OutAggregate(ch) >= Scale => out.val[ch] = MaxByte

(* Avg was called where a channel's weights cancel out and its undivided   *)
(* weighted sum is more than 2.0.                                          *)
C18_Witness ==
  /\ out.op = "Avg"
  /\ \E ch \in Channels :
       /\ OutTotal(ch) = 0
       /\ OutSum(ch) > 2 * Scale
       /\ out.val[ch] = MaxByte

(* Avg was called where a channel's weights are negative and its weighted  *)
(* sum is less than -1.0.                                                  *)
C18_WitnessBelow ==
  /\ out.op = "Avg"
  /\ \E ch \in Channels :
       /\ OutTotal(ch) < 0
       /\ OutSum(ch) < -Scale
       /\ out.val[ch] = 0

----------------------------------------------------------------------------
(* Claims about the conversions, under SpecConv *)

Abs(n) == IF n < 0 THEN -n ELSE n

(* The encode table of the model holds what init() computes from the       *)
(* closed form.                                                            *)
EncodeTableIsClosedForm ==
  out.op = "init" => linearToSRGB8LUT[out.i + 1] = out.val

(* C19: for every byte y, decoding and encoding again gives a byte within  *)
(* 1 of y, with the closed-form pair and with the table-backed pair, and   *)
(* the two results are within 1 of each other.                             *)
C19_RoundTripWithinOne ==
  out.op = "roundTrip" =>
    /\ Abs(out.closed - out.y) <= 1
    /\ Abs(out.table - out.y) <= 1
    /\ Abs(out.table - out.closed) <= 1

(* What holds of the code: the closed-form pair returns every byte as it   *)
(* was, and the table-backed pair is within 3 of it.                       *)
RoundTripWithinThree ==
  out.op = "roundTrip" =>
    /\ out.closed = out.y
    /\ Abs(out.table - out.y) <= 3

----------------------------------------------------------------------------
(* Channel ch of the kernel holds the edge-detection weights: radius 1,    *)
(* 8 in the centre and -1 on the eight cells around it                     *)
EdgeDetect(ch) ==
  /\ kernel.radius = 1
  /\ \A i \in 1..Len(kernel.weights) :
       kernel.weights[i][ch] = IF i = 5 THEN 8 ELSE -1

(* All the pixels of the image hold the same value on channel ch *)
UniformOn(img, ch) == \A p, q \in DOMAIN img.Pix : img.Pix[p][ch] = img.Pix[q][ch]

(* C20: on an image of one colour, Avg with the edge-detection kernel      *)
(* returns 0 at every pixel, those on the border of the image included.    *)
C20_EdgeDetectUniformIsZero ==
  out.op = "Avg" =>
    \A ch \in Channels :
      (EdgeDetect(ch) /\ UniformOn(OutImg, ch)) => out.val[ch] = 0

(* What holds of the code: where the window is not clipped the output is   *)
(* 0; at a border pixel the weights left in the window sum to more than 0  *)
(* (5 in a corner, 3 on a side of a 3 x 3 image), so that Avg returns the  *)
(* encoded colour of the image.                                            *)
EdgeDetectUniformInteriorZero ==
  out.op = "Avg" =>
    \A ch \in Channels :
      (EdgeDetect(ch) /\ UniformOn(OutImg, ch)) =>
        out.val[ch] = IF OutClipped
                      THEN lookupLinearToSRGB8(Linear(OutImg, <<out.x, out.y>>, ch))
                      ELSE 0

----------------------------------------------------------------------------
(* Claims about the channels, under SpecChannels *)

(* Kernels of one shape whose weights are the same on channel ch *)
SameKernelChannel(k1, k2, ch) ==
  /\ k1.radius = k2.radius
  /\ k1.sideLength = k2.sideLength
  /\ Len(k1.weights) = Len(k2.weights)
  /\ \A i \in 1..Len(k1.weights) : k1.weights[i][ch] = k2.weights[i][ch]

(* Images of the same bounds whose pixels are the same on channel ch *)
SameImageChannel(img1, img2, ch) ==
  /\ img1.Rect = img2.Rect
  /\ \A p \in DOMAIN img1.Pix : img1.Pix[p][ch] = img2.Pix[p][ch]

(* The kernel of the channel extraction: radius 0, weight (0, 0, 1, 1) *)
ExtractionKernel == SetWeightRGBA(KernelWithRadius(0), 0, 0, 0, 0, 1, 1)

(* C21: two calls of Avg, Max or Min on the same pixel whose kernels agree *)
(* on channel ch of every weight and whose images agree on channel ch of   *)
(* every pixel return the same value on channel ch, whatever the other     *)
(* channels hold.  With the kernel of radius 0 and weight (0, 0, 1, 1),    *)
(* ApplyAvg returns R = G = 0 at every pixel and a B and an A that are the *)
(* decoded and encoded B and A of the same pixel of the input.             *)
C21_ChannelsIndependent ==
  /\ (/\ out.op \in Ops
      /\ SameKernelChannel(kernel, out.kernel2, out.ch)
      /\ SameImageChannel(heap[1], out.img2, out.ch))
     => out.val[out.ch] = out.val2[out.ch]
  /\ (out.op = "ApplyAvg" /\ kernel = ExtractionKernel) =>
       /\ out.val.Rect = heap[1].Rect
       /\ \A p \in DOMAIN heap[1].Pix :
            /\ out.val.Pix[p][1] = 0
            /\ out.val.Pix[p][2] = 0
            /\ out.val.Pix[p][3] =
                 lookupLinearToSRGB8(lookupSRGB8ToLinear(heap[1].Pix[p][3]))
            /\ out.val.Pix[p][4] =
                 lookupLinearToSRGB8(lookupSRGB8ToLinear(heap[1].Pix[p][4]))

(* Avg was called twice with a kernel of radius 1 on inputs that agree on  *)
(* channel ch and differ on every other channel of every weight and pixel, *)
(* and the two results, not zero on ch, differ on another channel.         *)
C21_Witness ==
  /\ out.op = "Avg"
  /\ kernel.radius = 1
  /\ SameKernelChannel(kernel, out.kernel2, out.ch)
  /\ SameImageChannel(heap[1], out.img2, out.ch)
  /\ \A n \in Channels \ {out.ch} :
       /\ \A i \in 1..Len(kernel.weights) :
            kernel.weights[i][n] # out.kernel2.weights[i][n]
       /\ \A p \in DOMAIN heap[1].Pix : heap[1].Pix[p][n] # out.img2.Pix[p][n]
  /\ out.val[out.ch] \notin {0, MaxByte}
  /\ out.val # out.val2

(* The second call differed on channel ch too, and so does its result. *)
C21_WitnessDependent ==
  /\ out.op \in Ops
  /\ ~ SameImageChannel(heap[1], out.img2, out.ch)
  /\ out.val[out.ch] # out.val2[out.ch]

(* ApplyAvg with the extraction kernel has returned an image whose B and A *)
(* are not zero at some pixel, from an input whose R or G is not zero.     *)
C21_WitnessExtraction ==
  /\ out.op = "ApplyAvg"
  /\ kernel = ExtractionKernel
  /\ \E p \in DOMAIN heap[1].Pix :
       /\ heap[1].Pix[p][1] # 0
       /\ out.val.Pix[p][3] # 0
       /\ out.val.Pix[p][4] # 0

----------------------------------------------------------------------------
(* Claims about the workers of apply, under SpecApply *)

(* The rows MinY + k, MinY + k + P, MinY + k + 2P, ... below MaxY *)
StrideRows(bounds, k, P) ==
  {i \in bounds.MinY..(bounds.MaxY - 1) : (i - bounds.MinY) % P = k}

(* The pixels of the rows, all columns of each *)
RowPixels(bounds, rows) == {p \in Points(bounds) : p[2] \in rows}

(* C22: in a call of parallelism P >= 1 the workers launched are numbered  *)
(* 0 .. P - 1, all of them once the launch loop is over; worker k writes   *)
(* pixels of the rows MinY + k, MinY + k + P, ... only and has written all *)
(* columns of all these rows when it is done; no pixel is written by two   *)
(* workers, and when the call has returned the workers have written every  *)
(* pixel of the bounds.                                                    *)
C22_StrideRows ==
  \A c \in Callers :
    (call[c].pc # "idle" /\ call[c].parallelism >= 1) =>
      LET P == call[c].parallelism
          b == CallImg(c).Rect
          w == call[c].w
      IN  /\ DOMAIN w = 0..(call[c].worker - 1)
          /\ call[c].worker <= P
          /\ call[c].pc \in {"wait", "returned"} => call[c].worker = P
          /\ \A k \in DOMAIN w :
               /\ w[k].px \subseteq RowPixels(b, StrideRows(b, k, P))
               /\ w[k].pc = "done" => w[k].px = RowPixels(b, StrideRows(b, k, P))
          /\ \A k, m \in DOMAIN w : k # m => w[k].px \cap w[m].px = {}
          /\ \A k \in 0..(P - 1), m \in 0..(P - 1) :
               k # m => StrideRows(b, k, P) \cap StrideRows(b, m, P) = {}
          /\ UNION {StrideRows(b, k, P) : k \in 0..(P - 1)} = b.MinY..(b.MaxY - 1)
          /\ Returned(c) => UNION {w[k].px : k \in DOMAIN w} = Points(b)

(* A call with two workers on an image of three rows and two columns has   *)
(* returned: worker 0 has written the first and the third row, worker 1    *)
(* the second.                                                             *)
C22_Witness ==
  \E c \in Callers :
    /\ Returned(c)
    /\ call[c].parallelism = 2
    /\ CallImg(c).Rect = Rectangle(1, -1, 3, 2)
    /\ call[c].w[0].px = {<<1, -1>>, <<2, -1>>, <<1, 1>>, <<2, 1>>}
    /\ call[c].w[1].px = {<<1, 0>>, <<2, 0>>}

(* The workers of c's call that have signalled completion *)
DoneWorkers(c) == {k \in DOMAIN call[c].w : call[c].w[k].pc = "done"}

(* C24: under fair scheduling every call of parallelism >= 1 that has      *)
(* begun returns, whatever the bounds are and however many workers have no *)
(* row; each worker signals completion once: the counter of the WaitGroup  *)
(* is the number of workers that have not signalled yet, and a worker that *)
(* has signalled takes no further step.                                    *)
C24_ApplyTerminates ==
  /\ \A c \in Callers :
       (call[c].pc \in {"launch", "wait"} /\ call[c].parallelism >= 1) ~> Returned(c)
  /\ [](\A c \in Callers :
          call[c].pc # "idle" =>
            call[c].wg = call[c].parallelism - Cardinality(DoneWorkers(c)))
  /\ [][\A c \in Callers :
          call[c].pc # "idle" =>
            \A k \in DoneWorkers(c) : call'[c].w[k] = call[c].w[k]]_vars

(* A call with two workers on an image of one row has returned: worker 1   *)
(* had no row and wrote nothing.                                           *)
C24_Witness ==
  \E c \in Callers :
    /\ Returned(c)
    /\ call[c].parallelism = 2
    /\ CallImg(c).Rect = Rectangle(1, -1, 3, 0)
    /\ call[c].w[1].px = {}
    /\ call[c].w[0].px # {}
    /\ DoneWorkers(c) = {0, 1}

(* Calls with two workers on an image of no row and on an image of no      *)
(* column have returned.                                                   *)
C24_WitnessNoRows ==
  \E c \in Callers :
    /\ Returned(c)
    /\ call[c].parallelism = 2
    /\ CallImg(c).Rect = Rectangle(1, -1, 3, -1)

C24_WitnessNoColumns ==
  \E c \in Callers :
    /\ Returned(c)
    /\ call[c].parallelism = 2
    /\ CallImg(c).Rect = Rectangle(1, -1, 1, 2)

(* C28: a call of parallelism 0 has no worker at any time and no op is     *)
(* called in it; once begun it waits on a WaitGroup whose counter is 0, so *)
(* that it can return at once; the image it returns has the bounds of the  *)
(* input and all channels of all its pixels are zero.                      *)
C28_NoWorkerBlankResult ==
  \A c \in Callers :
    (call[c].pc # "idle" /\ call[c].parallelism = 0) =>
      /\ call[c].pc \in {"wait", "returned"}
      /\ DOMAIN call[c].w = {}
      /\ DOMAIN call[c].visits = {}
      /\ call[c].pc = "wait" => allDoneWait(c)
      /\ CallResult(c).kind = "NRGBA"
      /\ CallResult(c).Rect = call[c].src0.Rect
      /\ \A p \in DOMAIN CallResult(c).Pix : CallResult(c).Pix[p] = ZeroColor
      /\ DOMAIN CallResult(c).Pix = Points(call[c].src0.Rect)

(* A call of parallelism 0 on an image of three rows that is not blank,    *)
(* with the kernel of unit weight, has returned.                           *)
C28_Witness ==
  \E c \in Callers :
    /\ Returned(c)
    /\ call[c].parallelism = 0
    /\ kernel.radius = 0
    /\ CallImg(c).Rect = Rectangle(1, -1, 3, 2)
    /\ NotBlank(CallImg(c))

----------------------------------------------------------------------------
(* Claims about the window, under SpecOps *)

(* C23: the coordinates Avg, Max and Min read on an in-bounds centre       *)
(* (x, y) are the pixels of [x - r, x + r] x [y - r, y + r] that lie in    *)
(* the bounds, all of them and no other, each read once, and the pixel     *)
(* (x', y') is paired with the kernel cell of row y' - y + r and column    *)
(* x' - x + r; this also when the image is narrower or shorter than the    *)
(* kernel.                                                                 *)
C23_ReadsAreFootprint ==
  out.op \in Ops =>
    LET r == kernel.radius
        n == Len(out.reads)
    IN  /\ {<<out.reads[i][1], out.reads[i][2]>> : i \in 1..n} = OutFootprint
        /\ n = Cardinality(OutFootprint)
        /\ \A i \in 1..n :
             /\ PointIn(out.reads[i][1], out.reads[i][2], OutImg.Rect)
             /\ out.reads[i][3] = out.reads[i][2] - out.y + r
             /\ out.reads[i][4] = out.reads[i][1] - out.x + r
        /\ OutFootprint =
             {p \in ((out.x - r)..(out.x + r)) \X ((out.y - r)..(out.y + r)) :
                PointIn(p[1], p[2], OutImg.Rect)}

(* An operator was called with a kernel of radius 2 on the top pixel of an *)
(* image one column wide and three rows high, whose origin is not (0, 0):  *)
(* three pixels are read, in the cells of column 2 and rows 2, 3, 4.       *)
C23_Witness ==
  /\ out.op \in Ops
  /\ kernel.radius = 2
  /\ OutImg.Rect = Rectangle(1, -1, 2, 2)
  /\ out.x = 1 /\ out.y = -1
  /\ out.reads = << <<1, -1, 2, 2>>, <<1, 0, 3, 2>>, <<1, 1, 4, 2>> >>

(* An operator was called where the window is not clipped. *)
C23_WitnessInterior ==
  /\ out.op \in Ops
  /\ kernel.radius = 1
  /\ Len(out.reads) = 9

(* The kernel k with every positive weight replaced by w *)
PositiveAs(k, w) ==
  [radius |-> k.radius,
   sideLength |-> k.sideLength,
   weights |-> [i \in 1..Len(k.weights) |->
                  <<IF k.weights[i][1] > 0 THEN w ELSE k.weights[i][1],
                    IF k.weights[i][2] > 0 THEN w ELSE k.weights[i][2],
                    IF k.weights[i][3] > 0 THEN w ELSE k.weights[i][3],
                    IF k.weights[i][4] > 0 THEN w ELSE k.weights[i][4]>>]]

(* C26: on a channel whose weights are positive or zero on the clipped     *)
(* window, not all zero, Max (Min) returns the encoding of the greatest    *)
(* (least) value among the pixels of nonzero weight, whatever the          *)
(* magnitudes of the weights are: the call returns the same with every     *)
(* positive weight replaced by 1 or by 3.                                  *)
C26_PositiveWeightsMagnitudeFree ==
  out.op \in {"Max", "Min"} =>
    \A ch \in Channels :
      (/\ OutNonZero(ch) # {}
       /\ \A p \in OutFootprint : OutWeight(p, ch) >= 0) =>
        LET vals == {OutImg.Pix[p][ch] : p \in OutNonZero(ch)}
        IN  /\ out.val[ch] =
                 lookupLinearToSRGB8(lookupSRGB8ToLinear(
                   IF out.op = "Max" THEN MaxOf(vals) ELSE MinOf(vals)))
            /\ \A w \in {1, 3} :
                 out.val[ch] =
                   Op(out.op, PositiveAs(kernel, w), OutImg, out.x, out.y)[ch]

(* Max was called on a window whose weights on a channel are all positive  *)
(* and of different magnitudes, where the pixel of greatest weight * value *)
(* is not the pixel of greatest value; the result is the greatest value.   *)
C26_Witness ==
  /\ out.op = "Max"
  /\ \E ch \in Channels :
       /\ \A p \in OutFootprint : OutWeight(p, ch) > 0
       /\ \E p, q \in OutFootprint :
            /\ OutWeight(p, ch) * Linear(OutImg, p, ch)
                 > OutWeight(q, ch) * Linear(OutImg, q, ch)
            /\ OutImg.Pix[p][ch] < OutImg.Pix[q][ch]
            /\ \A z \in OutFootprint :
                 /\ OutImg.Pix[z][ch] <= OutImg.Pix[q][ch]
                 /\ OutWeight(z, ch) * Linear(OutImg, z, ch)
                      <= OutWeight(p, ch) * Linear(OutImg, p, ch)
            /\ out.val[ch] = lookupLinearToSRGB8(Linear(OutImg, q, ch))
            /\ out.val[ch] # lookupLinearToSRGB8(Linear(OutImg, p, ch))

(* Min was called on a window whose weights on a channel are positive and  *)
(* of different magnitudes and whose pixels differ on that channel.        *)
C26_WitnessMin ==
  /\ out.op = "Min"
  /\ \E ch \in Channels :
       /\ \A p \in OutFootprint : OutWeight(p, ch) > 0
       /\ \E p, q \in OutFootprint :
            /\ OutWeight(p, ch) # OutWeight(q, ch)
            /\ OutImg.Pix[p][ch] # OutImg.Pix[q][ch]
       /\ out.val[ch] \notin {0, MaxByte}

C27_WitnessMin ==
  /\ out.op = "Min"
  /\ \E ch \in Channels :
       /\ Cardinality(OutFootprint) > 1
       /\ \A p \in OutFootprint : OutWeight(p, ch) < 0
       /\ \A p \in OutFootprint : OutImg.Pix[p][ch] # MaxByte
       /\ out.val[ch] = MaxByte

----------------------------------------------------------------------------
(* Claims about the per-cell setters, under SpecKernel *)

CellSetters == {"SetWeightRGBA", "SetWeightUniform"}

(* The weight a per-cell setter was called with, on the four channels *)
OutCellWeight ==
  IF out.op = "SetWeightRGBA" THEN out.arg
  ELSE <<out.arg, out.arg, out.arg, out.arg>>

(* C25: SetWeightRGBA(x, y, r, g, b, a) with 0 <= x, y < sideLength sets   *)
(* the weight of the cell of row y and column x to (r, g, b, a) and leaves *)
(* the other cells, the radius and the side length as they were, without a *)
(* panic; SetWeightUniform(x, y, w) does so with (w, w, w, w).             *)
C25_SetsOneCell ==
  (/\ out.op \in CellSetters
   /\ 0 <= out.x /\ out.x < out.before.sideLength
   /\ 0 <= out.y /\ out.y < out.before.sideLength) =>
    LET cell == out.y * out.before.sideLength + out.x + 1
    IN  /\ out.panic = NoPanic
        /\ kernel.radius = out.before.radius
        /\ kernel.sideLength = out.before.sideLength
        /\ Len(kernel.weights) = Len(out.before.weights)
        /\ kernel.weights[cell] = OutCellWeight
        /\ \A i \in 1..Len(kernel.weights) :
             i # cell => kernel.weights[i] = out.before.weights[i]

(* SetWeightUniform was called on the cell of row 0 and column 2 of a 3 x 3 *)
(* kernel some of whose other cells hold other weights, set by a call      *)
(* before it.                                                              *)
C25_Witness ==
  /\ out.op = "SetWeightUniform"
  /\ out.before.radius = 1
  /\ out.x = 2 /\ out.y = 0
  /\ kernel.weights[3] = <<out.arg, out.arg, out.arg, out.arg>>
  /\ kernel # out.before
  /\ \E i \in 1..9 : i # 3 /\ kernel.weights[i] \notin {ZeroWeight, kernel.weights[3]}

(* The same for SetWeightRGBA on the cell of row 2 and column 0 *)
C25_WitnessRGBA ==
  /\ out.op = "SetWeightRGBA"
  /\ out.before.radius = 1
  /\ out.x = 0 /\ out.y = 2
  /\ kernel.weights[7] = RGBAVal
  /\ kernel # out.before

(* C30: the per-cell setters check the flat index y * sideLength + x only. *)
(* When it is within [0, sideLength^2) the call does not fail and sets the *)
(* cell of that flat index, also when x is outside [0, sideLength), the    *)
(* cell then being one of another row; when it is not, the call fails with *)
(* an index out of range and the kernel is as before.                      *)
C30_FlatIndexOnly ==
  out.op \in CellSetters =>
    LET i == out.y * out.before.sideLength + out.x
    IN  IF 0 <= i /\ i < out.before.sideLength * out.before.sideLength
        THEN /\ out.panic = NoPanic
             /\ kernel = [out.before EXCEPT !.weights[i + 1] = OutCellWeight]
        ELSE /\ out.panic # NoPanic
             /\ out.panic.index = i
             /\ kernel = out.before

(* SetWeightRGBA(-1, 1, ...) on a 3 x 3 kernel has set the cell of row 0   *)
(* and column 2 without a panic.                                           *)
C30_Witness ==
  /\ out.op = "SetWeightRGBA"
  /\ out.before.radius = 1
  /\ out.x = -1 /\ out.y = 1
  /\ out.panic = NoPanic
  /\ out.before.weights[3] # RGBAVal
  /\ kernel.weights[3] = RGBAVal

(* SetWeightUniform(sideLength, 0, w) has set the cell of row 1, column 0. *)
C30_WitnessRight ==
  /\ out.op = "SetWeightUniform"
  /\ out.before.radius = 2
  /\ out.x = 5 /\ out.y = 0
  /\ out.panic = NoPanic
  /\ kernel.weights[6] # out.before.weights[6]

(* A call whose flat index is out of range has failed: (-1, 0), and        *)
(* (0, sideLength).                                                        *)
C30_WitnessPanic ==
  /\ out.op \in CellSetters
  /\ out.panic # NoPanic
  /\ \/ out.x = -1 /\ out.y = 0
     \/ out.x = 0 /\ out.y = out.before.sideLength
  /\ HasWeights(kernel)

----------------------------------------------------------------------------
(* Claims about the clip, under SpecClip *)

(* C29: the four clip amounts are never negative, wherever the centre is;  *)
(* for a centre within the bounds each is at most radius, so that Left +   *)
(* Right and Top + Bottom are at most sideLength - 1 and the window the    *)
(* loops visit is not empty and holds the centre cell (radius, radius).    *)
C29_ClipLeavesCentre ==
  out.op = "clipToBounds" =>
    LET r == kernel.radius
        cells == WindowCells(kernel, out.val)
    IN  /\ out.val.Left >= 0 /\ out.val.Right >= 0
        /\ out.val.Top >= 0 /\ out.val.Bottom >= 0
        /\ PointIn(out.x, out.y, heap[1].Rect) =>
             /\ out.val.Left <= r /\ out.val.Right <= r
             /\ out.val.Top <= r /\ out.val.Bottom <= r
             /\ out.val.Left + out.val.Right <= kernel.sideLength - 1
             /\ out.val.Top + out.val.Bottom <= kernel.sideLength - 1
             /\ Len(cells) >= 1
             /\ \E n \in 1..Len(cells) : cells[n] = <<r, r>>

(* clipToBounds was called with a kernel of radius 2 on the pixel of a     *)
(* 1 x 1 image: every side is clipped by 2 and the window is the centre    *)
(* cell alone.                                                             *)
C29_Witness ==
  /\ out.op = "clipToBounds"
  /\ kernel.radius = 2
  /\ PointIn(out.x, out.y, heap[1].Rect)
  /\ out.val = [Left |-> 2, Right |-> 2, Top |-> 2, Bottom |-> 2]
  /\ WindowCells(kernel, out.val) = << <<2, 2>> >>

(* clipToBounds was called on a centre outside the bounds: a side is       *)
(* clipped by more than the radius.                                        *)
C29_WitnessOutside ==
  /\ out.op = "clipToBounds"
  /\ ~ PointIn(out.x, out.y, heap[1].Rect)
  /\ out.val.Right > kernel.radius

============================================================================
